---- MODULE Spec2Model ----
(***************************************************************************)
(* A model of provenance_context.ProvenanceCrate: the entity and action    *)
(* indexes, the selector resolution, the one-hop lineage query and the     *)
(* two breadth-first walkers (ancestry, descendants).                      *)
(*                                                                         *)
(* Encoding of the Python values:                                          *)
(*   - a str is a sequence of one-character strings, so that equality,     *)
(*     `in` (substring) and concatenation are computed, not assumed;       *)
(*   - None (and a key missing from a dict read with .get) is the value    *)
(*     None below where a str is expected, which no str equals, and        *)
(*     NoneRec where a dict is expected; a key that is present with the    *)
(*     JSON value null is Null, which .get reads as None;                  *)
(*   - an entity is a record holding the keys the queries read; the keys   *)
(*     that are only copied into summaries (exampleOfWork, startTime,      *)
(*     endTime, a tool's input/output) and fileFormat, the fallback of     *)
(*     encodingFormat, are left out;                                       *)
(*   - "@type" is [list |-> FALSE, v |-> {tag}] for the string tag and     *)
(*     [list |-> TRUE, v |-> set of tags] for a list of tags;              *)
(*   - a reference in object/result/instrument is [nested |-> FALSE,       *)
(*     s |-> x] for the bare value x and [nested |-> TRUE, at_id |-> x]    *)
(*     for the dict {"@id": x} (at_id = None for a dict without "@id");    *)
(*   - an insertion-ordered dict whose order is read (by_id, entity_nodes, *)
(*     action_nodes) is a sequence of [k, v] pairs with distinct keys;     *)
(*     a dict whose order is never read is a function.                     *)
(***************************************************************************)
EXTENDS Integers, Sequences, FiniteSets, TLC

(***************************************************************************)
(* Bounds of the model.                                                    *)
(***************************************************************************)
\* how many edits away from the fixture graph the graphs of Init are
MaxEdits == 2
\* the largest max_depth a walker is called with (besides None)
MaxDepthArg == 1
\* how many entities are appended to the graph of a crate
MaxAppends == 1

(***************************************************************************)
(* Python values.                                                          *)
(***************************************************************************)
None == <<"<None>">>
NoneRec == [none |-> TRUE]
Null == <<"<null>">>
\* e.get(key) for the value v stored under key
Get(v) == IF v = Null THEN None ELSE v

Truthy(s) == s # None /\ s # <<>>

\* `p in s` for two str
StrIn(p, s) == \E i \in 0..(Len(s) - Len(p)) : SubSeq(s, i + 1, i + Len(p)) = p

B(x) == [nested |-> FALSE, s |-> x]
N(x) == [nested |-> TRUE, at_id |-> x]

\* RefId without the isinstance(obj, dict) case
RefId_DictUnread(obj) == IF obj.nested THEN None ELSE obj.s

\* oid = obj.get("@id") if isinstance(obj, dict) else obj
RefId(obj) == IF obj.nested THEN obj.at_id ELSE obj.s

Str1(t) == [list |-> FALSE, v |-> {t}]
Lst(ts) == [list |-> TRUE, v |-> ts]

MapSeq(F(_), s) == [i \in 1..Len(s) |-> F(s[i])]

Range(s) == {s[i] : i \in 1..Len(s)}

\* dict.get on a sequence of [k, v] pairs with distinct keys
DictHas(d, k) == \E i \in 1..Len(d) : d[i].k = k
DictGet(d, k) ==
    IF DictHas(d, k) THEN d[CHOOSE i \in 1..Len(d) : d[i].k = k].v ELSE None
DictKeys(d) == {d[i].k : i \in 1..Len(d)}
\* d[k] = v: a new key goes last, an existing key keeps its place
DictSet(d, k, v) ==
    IF DictHas(d, k)
    THEN [i \in 1..Len(d) |-> IF d[i].k = k THEN [k |-> k, v |-> v] ELSE d[i]]
    ELSE Append(d, [k |-> k, v |-> v])
DictValues(d) == [i \in 1..Len(d) |-> d[i].v]

(***************************************************************************)
(* Entities and the graphs the crate is constructed from.                  *)
(***************************************************************************)
Ent(id, type) ==
    [id |-> id, type |-> type, alternateName |-> None, sha1 |-> None,
     name |-> None, value |-> None, object |-> <<>>, result |-> <<>>,
     instrument |-> B(None), encodingFormat |-> None, contentUrl |-> None]

f1 == <<"f", "1">>
f2 == <<"f", "2">>
f3 == <<"f", "3">>
a1 == <<"#", "a", "1">>
a2 == <<"#", "a", "2">>
t1 == <<"#", "t", "1">>
p1 == <<"#", "p", "1">>
d1 == <<"#", "d", "1">>
zz == <<"z", "z">>
site_id_name == <<"s", "i", "t", "e", "_", "i", "d">>

\* tests/conftest.py, multi_file_crate_dir: raw -> A1 -> processed -> A2 -> final,
\* with the parameter and the dataset of sample_crate_dir beside it.
BaseGraph ==
    << [Ent(f1, Str1("File")) EXCEPT !.alternateName = <<"r", "a">>, !.sha1 = <<"h", "1">>],
       [Ent(a1, Str1("CreateAction")) EXCEPT !.name = <<"A", "1">>,
            !.object = << N(f1) >>, !.result = << N(f2) >>, !.instrument = N(t1)],
       [Ent(f2, Str1("File")) EXCEPT !.alternateName = <<"p", "a">>, !.sha1 = <<"h", "2">>],
       [Ent(a2, Lst({"CreateAction", "Action"})) EXCEPT !.name = <<"A", "2">>,
            !.object = << B(f2) >>, !.result = << B(f3) >>, !.instrument = B(t1)],
       [Ent(f3, Str1("File")) EXCEPT !.alternateName = <<"f", "p", "a">>, !.sha1 = <<"h", "3">>],
       [Ent(t1, Str1("SoftwareApplication")) EXCEPT !.name = <<"t">>],
       [Ent(p1, Str1("PropertyValue")) EXCEPT !.name = site_id_name, !.value = <<"s", "1">>],
       [Ent(d1, Str1("Dataset")) EXCEPT !.alternateName = <<"s", "1", "/">>] >>

\* the positions of the entities in BaseGraph
iA1 == 2
iF2 == 3
iA2 == 4
iF3 == 5

\* One edit of a graph: a reference appended to an action's object or result
\* list, an entity retyped, renamed, or stripped of its sha1.
RefEdit(kind, at, ref) == [kind |-> kind, at |-> at, ref |-> ref]

Edits ==
    {   \* inputs of A1: a cycle from final, a dataset, a parameter, a dangling
        \* id, a dict without "@id"
        RefEdit("object", iA1, B(f3)), RefEdit("object", iA1, N(d1)),
        RefEdit("object", iA1, B(p1)), RefEdit("object", iA1, N(zz)),
        RefEdit("object", iA1, N(None)),
        \* inputs of A2: raw over a shorter path, a parameter
        RefEdit("object", iA2, N(f1)), RefEdit("object", iA2, B(p1)),
        \* outputs of A1: a second producer of final, processed listed twice,
        \* a dangling id, a dict without "@id"
        RefEdit("result", iA1, B(f3)), RefEdit("result", iA1, N(f2)),
        RefEdit("result", iA1, N(zz)), RefEdit("result", iA1, N(None)),
        \* outputs of A2: processed as a sibling output, raw (a cycle), a
        \* dataset, a parameter
        RefEdit("result", iA2, N(f2)), RefEdit("result", iA2, N(f1)),
        RefEdit("result", iA2, N(d1)), RefEdit("result", iA2, B(p1)) }
    \cup [kind : {"type"}, at : {iF2},
           type : {Str1("Dataset"), Lst({"File", "Dataset"}), Str1("Thing")}]
    \cup {[kind |-> "alternateName", at |-> iF2, to |-> f1],
          [kind |-> "alternateName", at |-> iF3, to |-> <<"p", "a">>]}
    \cup [kind : {"sha1"}, at : {iF2}]
    \* the tool of A2: a dangling id
    \cup {RefEdit("instrument", iA2, N(zz))}

ApplyEdit(g, e) ==
    CASE e.kind = "object" -> [g EXCEPT ![e.at].object = Append(@, e.ref)]
      [] e.kind = "result" -> [g EXCEPT ![e.at].result = Append(@, e.ref)]
      [] e.kind = "type" -> [g EXCEPT ![e.at].type = e.type]
      [] e.kind = "alternateName" -> [g EXCEPT ![e.at].alternateName = e.to]
      [] e.kind = "sha1" -> [g EXCEPT ![e.at].sha1 = None]
      [] e.kind = "instrument" -> [g EXCEPT ![e.at].instrument = e.ref]
      [] e.kind = "name" -> [g EXCEPT ![e.at].name = e.to]
      [] e.kind = "encodingFormat" -> [g EXCEPT ![e.at].encodingFormat = e.to]
      [] e.kind = "contentUrl" -> [g EXCEPT ![e.at].contentUrl = e.to]

RECURSIVE ApplyEdits(_, _)
ApplyEdits(g, es) ==
    IF es = <<>> THEN g ELSE ApplyEdits(ApplyEdit(g, Head(es)), Tail(es))

EditSeqs == UNION {[1..n -> Edits] : n \in 0..MaxEdits}

Graphs == {ApplyEdits(BaseGraph, es) : es \in EditSeqs}

(***************************************************************************)
(* The graphs of the site queries: the chain above with the first action   *)
(* tagged by the site_id parameter s1, its output named after the site,    *)
(* and a second site_id parameter, of value s2, that no action lists.      *)
(***************************************************************************)
p2 == <<"#", "p", "2">>
s1 == <<"s", "1">>
s2 == <<"s", "2">>
s1_xlsx == <<"s", "1", ".", "x", "l", "s", "x">>

SiteBaseGraph ==
    [BaseGraph EXCEPT ![iA1].object = << N(f1), N(p1) >>,
                      ![iF2].alternateName = s1_xlsx]
    \o << [Ent(p2, Str1("PropertyValue")) EXCEPT !.name = site_id_name, !.value = s2] >>

\* the positions of the parameter p1 and of the dataset in BaseGraph, and of
\* the parameter p2 in SiteBaseGraph
iP1 == 7
iD1 == 8
iP2 == 9
iF1 == 1

SiteEdits ==
    {   \* a second site among the inputs of A1, after the first
        RefEdit("object", iA1, B(p2)),
        \* A2 tagged with the site of A1, and with the other site
        RefEdit("object", iA2, B(p1)), RefEdit("object", iA2, N(p2)),
        \* final produced by A1 as well
        RefEdit("result", iA1, B(f3)),
        \* final named as processed is: a key basename of the site s1
        [kind |-> "alternateName", at |-> iF3, to |-> s1_xlsx],
        \* raw named as processed is: the first file of that name has no producer
        [kind |-> "alternateName", at |-> iF1, to |-> s1_xlsx],
        \* the second parameter under another name
        [kind |-> "name", at |-> iP2, to |-> <<"x">>],
        \* the parameter typed as a File besides, and as something else
        [kind |-> "type", at |-> iP1, type |-> Lst({"File", "PropertyValue"})],
        [kind |-> "type", at |-> iP1, type |-> Str1("Thing")],
        \* the dataset with "alternateName": null, and typed as a File besides
        [kind |-> "alternateName", at |-> iD1, to |-> Null],
        [kind |-> "type", at |-> iD1, type |-> Lst({"Dataset", "File"})] }

SiteEditSeqs == UNION {[1..n -> SiteEdits] : n \in 0..MaxEdits}

SiteGraphs == {ApplyEdits(SiteBaseGraph, es) : es \in SiteEditSeqs}

(***************************************************************************)
(* The state: the crate's fields, and the call in flight.                  *)
(***************************************************************************)
VARIABLES
    graph,              \* self.graph
    by_id,              \* self.by_id
    actions,            \* self.actions
    actions_by_result,  \* self.actions_by_result
    actions_by_input,   \* self.actions_by_input
    root_dir,           \* self.root_dir: None, or the directory of the crate
    disk,               \* the relative paths that exist under root_dir
    pc,                 \* "idle", "loop" while a walker's `while q` runs, or
                        \* "returned" while the caller holds the result
    op,                 \* the last query called
    file_selector,      \* its argument
    max_depth,          \* <<>> for None, <<d>> for the int d
    files,              \* the resolved roots
    w,                  \* the walker's locals
    ret,                \* what the last query returned
    raised              \* whether a query ended in an exception

crate == <<graph, by_id, actions, actions_by_result, actions_by_input, root_dir, disk>>
call == <<pc, op, file_selector, max_depth, files, w, ret, raised>>
vars == <<graph, by_id, actions, actions_by_result, actions_by_input, root_dir, disk,
          pc, op, file_selector, max_depth, files, w, ret, raised>>

(***************************************************************************)
(* _has_type and _build_indexes.                                           *)
(***************************************************************************)
HasType(ent, tname) ==
    IF ent.type.list THEN tname \in ent.type.v ELSE ent.type.v = {tname}

\* {e["@id"]: e for e in graph}
RECURSIVE BuildById(_, _)
BuildById(d, g) ==
    IF g = <<>> THEN d ELSE BuildById(DictSet(d, Head(g).id, Head(g)), Tail(g))

IsCreateAction(e) == HasType(e, "CreateAction")

\* BuildActions with `e.get("@type") == "CreateAction"` for the test
BuildActions_StringTyped(g) ==
    SelectSeq(g, LAMBDA e : ~e.type.list /\ e.type.v = {"CreateAction"})

\* [e for e in self.graph if self._has_type(e, "CreateAction")]
BuildActions(g) == SelectSeq(g, IsCreateAction)

\* IndexAppend with the entry overwritten, as `index[oid] = [act_id]` would
IndexAppend_Overwrite(index, oid, act_id) ==
    [x \in DOMAIN index \cup {oid} |-> IF x = oid THEN <<act_id>> ELSE index[x]]

\* index[oid].append(act_id) on a defaultdict(list)
IndexAppend(index, oid, act_id) ==
    IF oid \in DOMAIN index
    THEN [index EXCEPT ![oid] = Append(@, act_id)]
    ELSE [x \in DOMAIN index \cup {oid} |-> IF x = oid THEN <<act_id>> ELSE index[x]]

\* for obj in act.get(key, []): oid = ...; if oid: index[oid].append(act_id)
RECURSIVE IndexRefs(_, _, _)
IndexRefs(index, act_id, refs) ==
    IF refs = <<>> THEN index
    ELSE LET oid == RefId(Head(refs))
         IN  IndexRefs(IF Truthy(oid) THEN IndexAppend(index, oid, act_id) ELSE index,
                       act_id, Tail(refs))

EmptyIndex == [x \in {} |-> <<>>]

\* for act in self.actions: ... ; key is "result" or "object"
RECURSIVE BuildIndex(_, _, _)
BuildIndex(index, acts, key) ==
    IF acts = <<>> THEN index
    ELSE BuildIndex(IndexRefs(index, Head(acts).id,
                              IF key = "result" THEN Head(acts).result ELSE Head(acts).object),
                    Tail(acts), key)

\* dict.get(k, []) on an index
IndexGet(index, k) == IF k \in DOMAIN index THEN index[k] ELSE <<>>

(***************************************************************************)
(* The summarisers.                                                        *)
(***************************************************************************)
SummariseFile(ent) ==
    [id |-> ent.id, name |-> Get(ent.alternateName), sha1 |-> ent.sha1,
     encodingFormat |-> ent.encodingFormat]
SummariseDataset(ent) == [id |-> ent.id, name |-> Get(ent.alternateName)]
SummariseParam(ent) == [id |-> ent.id, name |-> ent.name, value |-> ent.value]
SummariseAction(ent) == [id |-> ent.id, name |-> ent.name]
SummariseTool(ent) == [id |-> ent.id, name |-> ent.name, type |-> ent.type]

(***************************************************************************)
(* get_file_entities.                                                      *)
(***************************************************************************)
FindFilesByAltname(g, pattern) ==
    SelectSeq(g, LAMBDA e :
        /\ HasType(e, "File")
        /\ e.alternateName # Null
        /\ StrIn(pattern, IF e.alternateName = None THEN <<>> ELSE e.alternateName))

\* GetFileEntities with the exact-name rule tried before the exact-id rule
GetFileEntities_NameFirst(by, g, sel) ==
    LET exact == SelectSeq(DictValues(by), LAMBDA e :
                     HasType(e, "File") /\ e.alternateName = sel)
    IN  IF exact # <<>> THEN exact
        ELSE IF DictHas(by, sel) /\ HasType(DictGet(by, sel), "File")
        THEN << DictGet(by, sel) >>
        ELSE FindFilesByAltname(g, sel)

\* Case 1: exact @id; Case 2: exact alternateName; Case 3: substring match
GetFileEntities(by, g, sel) ==
    IF DictHas(by, sel) /\ HasType(DictGet(by, sel), "File")
    THEN << DictGet(by, sel) >>
    ELSE LET exact == SelectSeq(DictValues(by), LAMBDA e :
                          HasType(e, "File") /\ e.alternateName = sel)
         IN  IF exact # <<>> THEN exact ELSE FindFilesByAltname(g, sel)

(***************************************************************************)
(* The partition of an action's inputs and outputs, and its tool.          *)
(***************************************************************************)
\* ent = self.by_id.get(oid); if not ent: continue
Resolves(by, obj) == DictHas(by, RefId(obj))

\* Resolved without `if not ent: continue`: a reference that resolves to
\* nothing goes on as an entity of its own
Resolved_KeepDangling(by, refs) ==
    MapSeq(LAMBDA obj : IF Resolves(by, obj) THEN DictGet(by, RefId(obj))
                        ELSE Ent(RefId(obj), Str1("Thing")), refs)

\* the entities a list of references resolves to, in the list's order
Resolved(by, refs) ==
    MapSeq(LAMBDA obj : DictGet(by, RefId(obj)), SelectSeq(refs, LAMBDA obj : Resolves(by, obj)))

IsFile(e) == HasType(e, "File")
IsDataset(e) == ~HasType(e, "File") /\ HasType(e, "Dataset")
IsParameter(e) ==
    ~HasType(e, "File") /\ ~HasType(e, "Dataset") /\ HasType(e, "PropertyValue")
IsOther(e) ==
    ~HasType(e, "File") /\ ~HasType(e, "Dataset") /\ ~HasType(e, "PropertyValue")

OtherEntry(e) == [id |-> e.id, type |-> e.type]

\* PartitionInputs with the Dataset test before the File test
PartitionInputs_DatasetFirst(by, act) ==
    LET ents == Resolved(by, act.object)
    IN  [files |-> MapSeq(SummariseFile,
                          SelectSeq(ents, LAMBDA e : IsFile(e) /\ ~HasType(e, "Dataset"))),
         datasets |-> MapSeq(SummariseDataset,
                             SelectSeq(ents, LAMBDA e : HasType(e, "Dataset"))),
         parameters |-> MapSeq(SummariseParam, SelectSeq(ents, IsParameter)),
         other |-> MapSeq(OtherEntry, SelectSeq(ents, IsOther))]

\* inputs = {"files": [], "datasets": [], "parameters": [], "other": []} filled
\* by the loop over act.get("object", [])
PartitionInputs(by, act) ==
    LET ents == Resolved(by, act.object)
    IN  [files |-> MapSeq(SummariseFile, SelectSeq(ents, IsFile)),
         datasets |-> MapSeq(SummariseDataset, SelectSeq(ents, IsDataset)),
         parameters |-> MapSeq(SummariseParam, SelectSeq(ents, IsParameter)),
         other |-> MapSeq(OtherEntry, SelectSeq(ents, IsOther))]

PartitionOutputs(by, act) ==
    LET ents == Resolved(by, act.result)
    IN  [files |-> MapSeq(SummariseFile, SelectSeq(ents, IsFile)),
         datasets |-> MapSeq(SummariseDataset, SelectSeq(ents, IsDataset)),
         other |-> MapSeq(OtherEntry, SelectSeq(ents, LAMBDA e : ~IsFile(e) /\ ~IsDataset(e)))]

\* inst_id = ...; tool = self.by_id.get(inst_id) if inst_id else None; _summarise_tool(tool)
ToolOf(by, act) ==
    LET inst_id == RefId(act.instrument)
    IN  IF Truthy(inst_id) /\ DictHas(by, inst_id)
        THEN SummariseTool(DictGet(by, inst_id))
        ELSE NoneRec

(***************************************************************************)
(* get_file_lineage.                                                       *)
(***************************************************************************)
NoProducerNote == <<"n", "o", "t", "e">>

\* SiteIds without the test of the parameter's name
SiteIds_AnyName(inputs) == MapSeq(LAMBDA p : p.value, inputs.parameters)

\* [p["value"] for p in inputs["parameters"] if p.get("name") == "site_id"]
SiteIds(inputs) ==
    MapSeq(LAMBDA p : p.value, SelectSeq(inputs.parameters, LAMBDA p : p.name = site_id_name))

\* LineageRecord whose inputs leave the parameters bucket empty
LineageRecord_NoParameters(by, f, act_id) ==
    LET act == DictGet(by, act_id)
        inputs == [PartitionInputs(by, act) EXCEPT !.parameters = <<>>]
    IN  [file |-> SummariseFile(f),
         produced_by |-> [action |-> SummariseAction(act), tool |-> ToolOf(by, act),
                          inputs |-> inputs],
         site_ids |-> SiteIds(inputs)]

LineageRecord(by, f, act_id) ==
    LET act == DictGet(by, act_id)
        inputs == PartitionInputs(by, act)
    IN  [file |-> SummariseFile(f),
         produced_by |-> [action |-> SummariseAction(act), tool |-> ToolOf(by, act),
                          inputs |-> inputs],
         site_ids |-> SiteIds(inputs)]

\* LineageOfFile with one record for the first producer only
LineageOfFile_FirstProducer(by, abr, f) ==
    LET producers == IndexGet(abr, f.id)
    IN  IF producers = <<>>
        THEN << [file |-> SummariseFile(f), produced_by |-> NoneRec, site_ids |-> <<>>,
                 note |-> NoProducerNote] >>
        ELSE << LineageRecord(by, f, producers[1]) >>

\* the body of `for f in files`
LineageOfFile(by, abr, f) ==
    LET producers == IndexGet(abr, f.id)
    IN  IF producers = <<>>
        THEN << [file |-> SummariseFile(f), produced_by |-> NoneRec, site_ids |-> <<>>,
                 note |-> NoProducerNote] >>
        ELSE MapSeq(LAMBDA act_id : LineageRecord(by, f, act_id), producers)

RECURSIVE LineageOfFiles(_, _, _)
LineageOfFiles(by, abr, fs) ==
    IF fs = <<>> THEN <<>>
    ELSE LineageOfFile(by, abr, Head(fs)) \o LineageOfFiles(by, abr, Tail(fs))

\* act = self.by_id[act_id] raises KeyError for a producer that is no key of by_id
LineageRaises(by, abr, fs) ==
    \E i \in 1..Len(fs) : \E act_id \in Range(IndexGet(abr, fs[i].id)) : ~DictHas(by, act_id)

GetFileLineage(by, g, abr, sel) == LineageOfFiles(by, abr, GetFileEntities(by, g, sel))

(***************************************************************************)
(* get_site_artifacts.                                                     *)
(***************************************************************************)
\* the characters of the model's strings, in code point order
CharOrder ==
    << "#", ".", "/", "1", "2", "3", "A", "_",
       "a", "c", "d", "e", "f", "h", "i", "j", "k", "l", "m", "n", "o", "p",
       "r", "s", "t", "x", "y", "z" >>
CharCode(c) == CHOOSE i \in 1..Len(CharOrder) : CharOrder[i] = c

\* a < b for two str
RECURSIVE StrLess(_, _)
StrLess(a, b) ==
    IF b = <<>> THEN FALSE
    ELSE IF a = <<>> THEN TRUE
    ELSE IF Head(a) = Head(b) THEN StrLess(Tail(a), Tail(b))
    ELSE CharCode(Head(a)) < CharCode(Head(b))

\* sorted(S) for a set of str
RECURSIVE Sorted(_)
Sorted(S) ==
    IF S = {} THEN <<>>
    ELSE LET m == CHOOSE x \in S : \A y \in S \ {x} : StrLess(x, y)
         IN  <<m>> \o Sorted(S \ {m})

KeyBaseNames(site_id) ==
    <<
       <<"t", "r", "a", "n", "s", "e", "c", "t", "_", "t", "i", "m", "e",
         "_", "s", "e", "r", "i", "e", "s", ".", "c", "s", "v">>,
       <<"t", "r", "a", "n", "s", "e", "c", "t", "_", "t", "i", "m", "e",
         "_", "s", "e", "r", "i", "e", "s", "_", "d", "e", "s", "p", "i",
         "k", "e", "d", ".", "c", "s", "v">>,
       <<"t", "r", "a", "n", "s", "e", "c", "t", "_", "t", "i", "m", "e",
         "_", "s", "e", "r", "i", "e", "s", "_", "s", "m", "o", "o", "t",
         "h", "e", "d", ".", "c", "s", "v">>,
       <<"t", "r", "a", "n", "s", "e", "c", "t", "_", "t", "i", "m", "e",
         "_", "s", "e", "r", "i", "e", "s", "_", "t", "i", "d", "a", "l",
         "l", "y", "_", "c", "o", "r", "r", "e", "c", "t", "e", "d", ".",
         "c", "s", "v">>,
       <<"t", "i", "d", "e", "s", ".", "c", "s", "v">>,
       site_id \o <<".", "x", "l", "s", "x">>,
       <<"l", "i", "n", "e", "a", "r", "_">> \o site_id \o <<".", "j", "s", "o", "n">> >>

\* str(e.get("alternateName", "")): "" for a missing key, "None" for null
AltNameStr(e) ==
    IF e.alternateName = None THEN <<>>
    ELSE IF e.alternateName = Null THEN <<"N", "o", "n", "e">>
    ELSE e.alternateName

IsSiteParam(e) == HasType(e, "PropertyValue") /\ e.name = site_id_name

\* SiteActionIds without `ent.get("value") == site_id`
SiteActionIds_AnySite(by, acts, site_id) ==
    { acts[i].id : i \in { j \in 1..Len(acts) :
        \E k \in 1..Len(acts[j].object) :
            /\ Resolves(by, acts[j].object[k])
            /\ IsSiteParam(DictGet(by, RefId(acts[j].object[k]))) } }

\* site_action_ids: the actions one of whose inputs is a site_id parameter of
\* this value
SiteActionIds(by, acts, site_id) ==
    { acts[i].id : i \in { j \in 1..Len(acts) :
        \E k \in 1..Len(acts[j].object) :
            /\ Resolves(by, acts[j].object[k])
            /\ IsSiteParam(DictGet(by, RefId(acts[j].object[k])))
            /\ DictGet(by, RefId(acts[j].object[k])).value = site_id } }

SummariseRun(by, act) ==
    [action |-> SummariseAction(act), tool |-> ToolOf(by, act),
     site_ids |-> MapSeq(LAMBDA e : e.value, SelectSeq(Resolved(by, act.object), IsSiteParam))]

\* KeyLineages with summaries[0] in place of site_summaries[0]
RECURSIVE KeyLineages_FirstSummary(_, _, _, _, _)
KeyLineages_FirstSummary(by, g, abr, site_id, bases) ==
    IF bases = <<>> THEN <<>>
    ELSE LET summaries == GetFileLineage(by, g, abr, Head(bases))
             site_summaries == SelectSeq(summaries, LAMBDA r : site_id \in Range(r.site_ids))
         IN  (IF site_summaries # <<>>
              THEN << [k |-> Head(bases), v |-> summaries[1]] >>
              ELSE <<>>)
             \o KeyLineages_FirstSummary(by, g, abr, site_id, Tail(bases))

\* for base in key_base_names: the first record of get_file_lineage(base) whose
\* site_ids holds site_id, when there is one
RECURSIVE KeyLineages(_, _, _, _, _)
KeyLineages(by, g, abr, site_id, bases) ==
    IF bases = <<>> THEN <<>>
    ELSE LET site_summaries ==
                 SelectSeq(GetFileLineage(by, g, abr, Head(bases)),
                           LAMBDA r : site_id \in Range(r.site_ids))
         IN  (IF site_summaries # <<>>
              THEN << [k |-> Head(bases), v |-> site_summaries[1]] >>
              ELSE <<>>)
             \o KeyLineages(by, g, abr, site_id, Tail(bases))

\* self.by_id[aid], or a lineage query inside, raises KeyError
SiteRaises(by, g, acts, abr, site_id) ==
    \/ \E aid \in SiteActionIds(by, acts, site_id) : ~DictHas(by, aid)
    \/ \E i \in 1..Len(KeyBaseNames(site_id)) :
           LineageRaises(by, abr, GetFileEntities(by, g, KeyBaseNames(site_id)[i]))

GetSiteArtifacts(by, g, acts, abr, site_id) ==
    LET vals == DictValues(by)
    IN  [site_id |-> site_id,
         parameters |-> MapSeq(SummariseParam,
             SelectSeq(vals, LAMBDA e : IsSiteParam(e) /\ e.value = site_id)),
         datasets |-> MapSeq(SummariseDataset,
             SelectSeq(vals, LAMBDA e : HasType(e, "Dataset") /\ StrIn(site_id, AltNameStr(e)))),
         files |-> MapSeq(SummariseFile,
             SelectSeq(vals, LAMBDA e : HasType(e, "File") /\ StrIn(site_id, AltNameStr(e)))),
         step_runs |-> MapSeq(LAMBDA aid : SummariseRun(by, DictGet(by, aid)),
                              Sorted(SiteActionIds(by, acts, site_id))),
         key_lineages |-> KeyLineages(by, g, abr, site_id, KeyBaseNames(site_id))]

(***************************************************************************)
(* The walkers: one operator per iteration of `while q`.                   *)
(* expanded_entities and expanded_actions log, in order, the entities      *)
(* whose actions the iteration went on to read and the actions whose       *)
(* record it wrote, and iterations counts the iterations of the loop; the  *)
(* code keeps no such log and no such count.                               *)
(***************************************************************************)
EmptyW ==
    [q |-> <<>>, visited_entities |-> {}, visited_actions |-> {},
     entity_nodes |-> <<>>, action_nodes |-> <<>>, edges |-> <<>>,
     expanded_entities |-> <<>>, expanded_actions |-> <<>>, iterations |-> 0]

\* q = deque((rid, 0) for rid in root_ids)
StartW(roots) == [EmptyW EXCEPT !.q = MapSeq(LAMBDA f : <<f.id, 0>>, roots)]

Edge(type, act_id, ent_id) == [type |-> type, action |-> act_id, entity |-> ent_id]

\* MayEnqueue without the `max_depth is None` case
MayEnqueue_NoneStops(md, depth) == md # <<>> /\ depth + 1 <= md[1]

\* MayEnqueue with `depth + 1 < max_depth` for the test
MayEnqueue_Strict(md, depth) == md = <<>> \/ depth + 1 < md[1]

\* MayEnqueue off by one, as `depth <= max_depth` would
MayEnqueue_OffByOne(md, depth) == md = <<>> \/ depth <= md[1]

\* max_depth is None or depth + 1 <= max_depth
MayEnqueue(md, depth) == md = <<>> \/ depth + 1 <= md[1]

EntitySummary(ent) == IF HasType(ent, "File") THEN SummariseFile(ent) ELSE SummariseDataset(ent)

\* Dequeue without `if ent_id in visited_entities: continue`
Dequeue_NoVisitedCheck(by, st) ==
    LET ent_id == Head(st.q)[1]
        st1 == [st EXCEPT !.q = Tail(@), !.visited_entities = @ \cup {ent_id},
                          !.iterations = @ + 1]
    IN  IF ~DictHas(by, ent_id) THEN [expand |-> FALSE, st |-> st1]
        ELSE IF ~HasType(DictGet(by, ent_id), "File") /\ ~HasType(DictGet(by, ent_id), "Dataset")
             THEN [expand |-> FALSE, st |-> st1]
        ELSE [expand |-> TRUE,
              st |-> [st1 EXCEPT
                        !.entity_nodes = DictSet(@, ent_id, EntitySummary(DictGet(by, ent_id))),
                        !.expanded_entities = Append(@, ent_id)]]

\* Dequeue reading q[0] where the code pops it: a visited entity stays at the
\* head of the queue
Dequeue_NoPop(by, st) ==
    LET ent_id == Head(st.q)[1]
        st1 == [st EXCEPT !.q = Tail(@), !.visited_entities = @ \cup {ent_id},
                          !.iterations = @ + 1]
    IN  IF ent_id \in st.visited_entities
        THEN [expand |-> FALSE, st |-> [st EXCEPT !.iterations = @ + 1]]
        ELSE IF ~DictHas(by, ent_id) THEN [expand |-> FALSE, st |-> st1]
        ELSE IF ~HasType(DictGet(by, ent_id), "File") /\ ~HasType(DictGet(by, ent_id), "Dataset")
             THEN [expand |-> FALSE, st |-> st1]
        ELSE [expand |-> TRUE,
              st |-> [st1 EXCEPT
                        !.entity_nodes = DictSet(@, ent_id, EntitySummary(DictGet(by, ent_id))),
                        !.expanded_entities = Append(@, ent_id)]]

\* the part of an iteration up to the loop over the entity's actions
Dequeue(by, st) ==
    LET ent_id == Head(st.q)[1]
        st0 == [st EXCEPT !.q = Tail(@), !.iterations = @ + 1]
        st1 == [st0 EXCEPT !.visited_entities = @ \cup {ent_id}]
    IN  IF ent_id \in st.visited_entities THEN [expand |-> FALSE, st |-> st0]
        ELSE IF ~DictHas(by, ent_id) THEN [expand |-> FALSE, st |-> st1]
        ELSE IF ~HasType(DictGet(by, ent_id), "File") /\ ~HasType(DictGet(by, ent_id), "Dataset")
             THEN [expand |-> FALSE, st |-> st1]
        ELSE [expand |-> TRUE,
              st |-> [st1 EXCEPT
                        !.entity_nodes = DictSet(@, ent_id, EntitySummary(DictGet(by, ent_id))),
                        !.expanded_entities = Append(@, ent_id)]]

\* AncestryAction with the generated edge recorded after the visited_actions
\* test instead of before it
AncestryAction_EdgeAfterTest(by, md, ent_id, depth, act_id, st) ==
    IF ~DictHas(by, act_id) \/ act_id \in st.visited_actions THEN st
    ELSE LET st1 == [st EXCEPT !.edges = Append(@, Edge("generated", act_id, ent_id))]
             act == DictGet(by, act_id)
             inputs == PartitionInputs(by, act)
             in_ids == MapSeq(LAMBDA x : x.id, inputs.files)
                       \o MapSeq(LAMBDA x : x.id, inputs.datasets)
         IN  [st1 EXCEPT
                !.visited_actions = @ \cup {act_id},
                !.action_nodes = DictSet(@, act_id,
                    [action |-> SummariseAction(act), tool |-> ToolOf(by, act),
                     inputs |-> inputs]),
                !.edges = @ \o MapSeq(LAMBDA i : Edge("used", act_id, i), in_ids),
                !.q = IF MayEnqueue(md, depth)
                      THEN @ \o MapSeq(LAMBDA i : <<i, depth + 1>>, in_ids)
                      ELSE @,
                !.expanded_actions = Append(@, act_id)]

\* AncestryAction with the used edge appended under the depth test, next to
\* q.append
AncestryAction_EdgeWhenEnqueued(by, md, ent_id, depth, act_id, st) ==
    IF ~DictHas(by, act_id) THEN st
    ELSE LET st1 == [st EXCEPT !.edges = Append(@, Edge("generated", act_id, ent_id))]
             act == DictGet(by, act_id)
             inputs == PartitionInputs(by, act)
             in_ids == MapSeq(LAMBDA x : x.id, inputs.files)
                       \o MapSeq(LAMBDA x : x.id, inputs.datasets)
         IN  IF act_id \in st.visited_actions THEN st1
             ELSE [st1 EXCEPT
                     !.visited_actions = @ \cup {act_id},
                     !.action_nodes = DictSet(@, act_id,
                         [action |-> SummariseAction(act), tool |-> ToolOf(by, act),
                          inputs |-> inputs]),
                     !.edges = IF MayEnqueue(md, depth)
                               THEN @ \o MapSeq(LAMBDA i : Edge("used", act_id, i), in_ids)
                               ELSE @,
                     !.q = IF MayEnqueue(md, depth)
                           THEN @ \o MapSeq(LAMBDA i : <<i, depth + 1>>, in_ids)
                           ELSE @,
                     !.expanded_actions = Append(@, act_id)]

\* the body of `for act_id in self.actions_by_result.get(ent_id, [])`
AncestryAction(by, md, ent_id, depth, act_id, st) ==
    IF ~DictHas(by, act_id) THEN st
    ELSE LET st1 == [st EXCEPT !.edges = Append(@, Edge("generated", act_id, ent_id))]
             act == DictGet(by, act_id)
             inputs == PartitionInputs(by, act)
             in_ids == MapSeq(LAMBDA x : x.id, inputs.files)
                       \o MapSeq(LAMBDA x : x.id, inputs.datasets)
         IN  IF act_id \in st.visited_actions THEN st1
             ELSE [st1 EXCEPT
                     !.visited_actions = @ \cup {act_id},
                     !.action_nodes = DictSet(@, act_id,
                         [action |-> SummariseAction(act), tool |-> ToolOf(by, act),
                          inputs |-> inputs]),
                     !.edges = @ \o MapSeq(LAMBDA i : Edge("used", act_id, i), in_ids),
                     !.q = IF MayEnqueue(md, depth)
                           THEN @ \o MapSeq(LAMBDA i : <<i, depth + 1>>, in_ids)
                           ELSE @,
                     !.expanded_actions = Append(@, act_id)]

\* AncestryActions that leaves the loop after the first producer
AncestryActions_FirstOnly(by, md, ent_id, depth, acts, st) ==
    IF acts = <<>> THEN st
    ELSE AncestryAction(by, md, ent_id, depth, Head(acts), st)

\* for act_id in self.actions_by_result.get(ent_id, [])
RECURSIVE AncestryActions(_, _, _, _, _, _)
AncestryActions(by, md, ent_id, depth, acts, st) ==
    IF acts = <<>> THEN st
    ELSE AncestryActions(by, md, ent_id, depth, Tail(acts),
                         AncestryAction(by, md, ent_id, depth, Head(acts), st))

AncestryIter(by, abr, md, st) ==
    LET d == Dequeue(by, st)
    IN  IF d.expand
        THEN AncestryActions(by, md, Head(st.q)[1], Head(st.q)[2],
                             IndexGet(abr, Head(st.q)[1]), d.st)
        ELSE d.st

\* DescendantsAction with the used edge recorded after the visited_actions
\* test instead of before it
DescendantsAction_EdgeAfterTest(by, md, ent_id, depth, act_id, st) ==
    IF ~DictHas(by, act_id) \/ act_id \in st.visited_actions THEN st
    ELSE LET st1 == [st EXCEPT !.edges = Append(@, Edge("used", act_id, ent_id))]
             act == DictGet(by, act_id)
             data == SelectSeq(Resolved(by, act.result),
                               LAMBDA e : HasType(e, "File") \/ HasType(e, "Dataset"))
             out_ids == MapSeq(LAMBDA e : e.id, data)
         IN  [st1 EXCEPT
                !.visited_actions = @ \cup {act_id},
                !.edges = @ \o MapSeq(LAMBDA i : Edge("generated", act_id, i), out_ids),
                !.q = IF MayEnqueue(md, depth)
                      THEN @ \o MapSeq(LAMBDA i : <<i, depth + 1>>, out_ids)
                      ELSE @,
                !.action_nodes = DictSet(@, act_id,
                    [action |-> SummariseAction(act), tool |-> ToolOf(by, act),
                     inputs |-> PartitionInputs(by, act),
                     outputs |-> PartitionOutputs(by, act)]),
                !.expanded_actions = Append(@, act_id)]

\* DescendantsAction that goes on through File outputs only: no edge to a
\* Dataset output, and no q.append for it
DescendantsAction_FilesOnly(by, md, ent_id, depth, act_id, st) ==
    IF ~DictHas(by, act_id) THEN st
    ELSE LET st1 == [st EXCEPT !.edges = Append(@, Edge("used", act_id, ent_id))]
             act == DictGet(by, act_id)
             data == SelectSeq(Resolved(by, act.result), LAMBDA e : HasType(e, "File"))
             out_ids == MapSeq(LAMBDA e : e.id, data)
         IN  IF act_id \in st.visited_actions THEN st1
             ELSE [st1 EXCEPT
                     !.visited_actions = @ \cup {act_id},
                     !.edges = @ \o MapSeq(LAMBDA i : Edge("generated", act_id, i), out_ids),
                     !.q = IF MayEnqueue(md, depth)
                           THEN @ \o MapSeq(LAMBDA i : <<i, depth + 1>>, out_ids)
                           ELSE @,
                     !.action_nodes = DictSet(@, act_id,
                         [action |-> SummariseAction(act), tool |-> ToolOf(by, act),
                          inputs |-> PartitionInputs(by, act),
                          outputs |-> PartitionOutputs(by, act)]),
                     !.expanded_actions = Append(@, act_id)]

\* the body of `for act_id in self.actions_by_input.get(ent_id, [])`
DescendantsAction(by, md, ent_id, depth, act_id, st) ==
    IF ~DictHas(by, act_id) THEN st
    ELSE LET st1 == [st EXCEPT !.edges = Append(@, Edge("used", act_id, ent_id))]
             act == DictGet(by, act_id)
             data == SelectSeq(Resolved(by, act.result),
                               LAMBDA e : HasType(e, "File") \/ HasType(e, "Dataset"))
             out_ids == MapSeq(LAMBDA e : e.id, data)
         IN  IF act_id \in st.visited_actions THEN st1
             ELSE [st1 EXCEPT
                     !.visited_actions = @ \cup {act_id},
                     !.edges = @ \o MapSeq(LAMBDA i : Edge("generated", act_id, i), out_ids),
                     !.q = IF MayEnqueue(md, depth)
                           THEN @ \o MapSeq(LAMBDA i : <<i, depth + 1>>, out_ids)
                           ELSE @,
                     !.action_nodes = DictSet(@, act_id,
                         [action |-> SummariseAction(act), tool |-> ToolOf(by, act),
                          inputs |-> PartitionInputs(by, act),
                          outputs |-> PartitionOutputs(by, act)]),
                     !.expanded_actions = Append(@, act_id)]

RECURSIVE DescendantsActions(_, _, _, _, _, _)
DescendantsActions(by, md, ent_id, depth, acts, st) ==
    IF acts = <<>> THEN st
    ELSE DescendantsActions(by, md, ent_id, depth, Tail(acts),
                            DescendantsAction(by, md, ent_id, depth, Head(acts), st))

DescendantsIter(by, abi, md, st) ==
    LET d == Dequeue(by, st)
    IN  IF d.expand
        THEN DescendantsActions(by, md, Head(st.q)[1], Head(st.q)[2],
                                IndexGet(abi, Head(st.q)[1]), d.st)
        ELSE d.st

EmptyAncestry == [root_files |-> <<>>, entities |-> <<>>, actions |-> <<>>, edges |-> <<>>]

\* EmptyDescendants as the structure get_file_ancestry returns
EmptyDescendants_NoFiles ==
    [root_files |-> <<>>, entities |-> <<>>, actions |-> <<>>, edges |-> <<>>]

\* the early return of get_file_descendants
EmptyDescendants ==
    [root_files |-> <<>>, entities |-> <<>>, actions |-> <<>>, edges |-> <<>>,
     descendant_files |-> <<>>]

\* AncestryResult with the roots reported in root_files only
AncestryResult_RootsApart(roots, st) ==
    [root_files |-> MapSeq(SummariseFile, roots),
     entities |-> SelectSeq(st.entity_nodes,
                            LAMBDA p : p.k \notin {roots[i].id : i \in 1..Len(roots)}),
     actions |-> st.action_nodes, edges |-> st.edges]

\* the return of get_file_ancestry
AncestryResult(roots, st) ==
    [root_files |-> MapSeq(SummariseFile, roots), entities |-> st.entity_nodes,
     actions |-> st.action_nodes, edges |-> st.edges]

\* DescendantFiles without `summary.get("sha1") is not None`
DescendantFiles_Unhashed(roots, entity_nodes) ==
    DictValues(SelectSeq(entity_nodes, LAMBDA p :
        p.k \notin {roots[i].id : i \in 1..Len(roots)}))

\* DescendantFiles without `eid not in root_id_set`
DescendantFiles_RootsIncluded(roots, entity_nodes) ==
    DictValues(SelectSeq(entity_nodes, LAMBDA p :
        "sha1" \in DOMAIN p.v /\ p.v.sha1 # None))

\* for eid, summary in entity_nodes.items(): if eid not in root_id_set and
\* summary.get("sha1") is not None
DescendantFiles(roots, entity_nodes) ==
    DictValues(SelectSeq(entity_nodes, LAMBDA p :
        /\ p.k \notin {roots[i].id : i \in 1..Len(roots)}
        /\ "sha1" \in DOMAIN p.v
        /\ p.v.sha1 # None))

DescendantsResult(roots, st) ==
    [root_files |-> MapSeq(SummariseFile, roots), entities |-> st.entity_nodes,
     actions |-> st.action_nodes, edges |-> st.edges,
     descendant_files |-> DescendantFiles(roots, st.entity_nodes)]

(***************************************************************************)
(* The walkers as functions: the loop run until the queue is empty.        *)
(***************************************************************************)
RECURSIVE AncestryRun(_, _, _, _)
AncestryRun(by, abr, md, st) ==
    IF st.q = <<>> THEN st ELSE AncestryRun(by, abr, md, AncestryIter(by, abr, md, st))

RECURSIVE DescendantsRun(_, _, _, _)
DescendantsRun(by, abi, md, st) ==
    IF st.q = <<>> THEN st ELSE DescendantsRun(by, abi, md, DescendantsIter(by, abi, md, st))

GetFileAncestry(by, g, abr, sel, md) ==
    LET roots == GetFileEntities(by, g, sel)
    IN  IF roots = <<>> THEN EmptyAncestry
        ELSE AncestryResult(roots, AncestryRun(by, abr, md, StartW(roots)))

GetFileDescendants(by, g, abi, sel, md) ==
    LET roots == GetFileEntities(by, g, sel)
    IN  IF roots = <<>> THEN EmptyDescendants
        ELSE DescendantsResult(roots, DescendantsRun(by, abi, md, StartW(roots)))

(***************************************************************************)
(* The media type helpers and get_image_files.                             *)
(***************************************************************************)
EndsWith(str, suffix) ==
    Len(suffix) <= Len(str) /\ SubSeq(str, Len(str) - Len(suffix) + 1, Len(str)) = suffix

StartsWith(str, prefix) == Len(prefix) <= Len(str) /\ SubSeq(str, 1, Len(prefix)) = prefix

\* str.lower(), one character
Lower(c) ==
    CASE c = "A" -> "a"
      [] c = "B" -> "b"
      [] c = "C" -> "c"
      [] c = "D" -> "d"
      [] c = "E" -> "e"
      [] c = "F" -> "f"
      [] c = "G" -> "g"
      [] c = "H" -> "h"
      [] c = "I" -> "i"
      [] c = "J" -> "j"
      [] c = "K" -> "k"
      [] c = "L" -> "l"
      [] c = "M" -> "m"
      [] c = "N" -> "n"
      [] c = "O" -> "o"
      [] c = "P" -> "p"
      [] c = "Q" -> "q"
      [] c = "R" -> "r"
      [] c = "S" -> "s"
      [] c = "T" -> "t"
      [] c = "U" -> "u"
      [] c = "V" -> "v"
      [] c = "W" -> "w"
      [] c = "X" -> "x"
      [] c = "Y" -> "y"
      [] c = "Z" -> "z"
      [] OTHER -> c

StrLower(str) == [i \in 1..Len(str) |-> Lower(str[i])]

text_csv ==
    <<"t", "e", "x", "t", "/", "c", "s", "v">>
text_comma_separated_values ==
    <<"t", "e", "x", "t", "/", "c", "o", "m", "m", "a", "-", "s", "e", "p",
      "a", "r", "a", "t", "e", "d", "-", "v", "a", "l", "u", "e", "s">>
application_json ==
    <<"a", "p", "p", "l", "i", "c", "a", "t", "i", "o", "n", "/", "j", "s",
      "o", "n">>
application_geo_json ==
    <<"a", "p", "p", "l", "i", "c", "a", "t", "i", "o", "n", "/", "g", "e",
      "o", "+", "j", "s", "o", "n">>
image_png ==
    <<"i", "m", "a", "g", "e", "/", "p", "n", "g">>
image_jpeg ==
    <<"i", "m", "a", "g", "e", "/", "j", "p", "e", "g">>
image_tiff ==
    <<"i", "m", "a", "g", "e", "/", "t", "i", "f", "f">>
application_xlsx ==
    <<"a", "p", "p", "l", "i", "c", "a", "t", "i", "o", "n", "/", "v", "n",
      "d", ".", "o", "p", "e", "n", "x", "m", "l", "f", "o", "r", "m", "a",
      "t", "s", "-", "o", "f", "f", "i", "c", "e", "d", "o", "c", "u", "m",
      "e", "n", "t", ".", "s", "p", "r", "e", "a", "d", "s", "h", "e", "e",
      "t", "m", "l", ".", "s", "h", "e", "e", "t">>

\* guess_media_type(file_summary): encodingFormat when there is one, else the
\* type of the extension of the lowered name, else None
GuessMediaType(summary) ==
    LET name == StrLower(IF Truthy(summary.name) THEN summary.name ELSE <<>>)
    IN  IF Truthy(summary.encodingFormat) THEN summary.encodingFormat
        ELSE IF EndsWith(name, <<".", "c", "s", "v">>) THEN text_csv
        ELSE IF EndsWith(name, <<".", "j", "s", "o", "n">>) THEN application_json
        ELSE IF EndsWith(name, <<".", "g", "e", "o", "j", "s", "o", "n">>)
             THEN application_geo_json
        ELSE IF EndsWith(name, <<".", "p", "n", "g">>) THEN image_png
        ELSE IF EndsWith(name, <<".", "j", "p", "g">>)
                \/ EndsWith(name, <<".", "j", "p", "e", "g">>) THEN image_jpeg
        ELSE IF EndsWith(name, <<".", "t", "i", "f">>)
                \/ EndsWith(name, <<".", "t", "i", "f", "f">>) THEN image_tiff
        ELSE IF EndsWith(name, <<".", "x", "l", "s", "x">>) THEN application_xlsx
        ELSE None

\* (guess_media_type(summary) or "").lower().startswith("image/")
IsImage(summary) ==
    LET mt == GuessMediaType(summary)
    IN  StartsWith(StrLower(IF Truthy(mt) THEN mt ELSE <<>>),
                   <<"i", "m", "a", "g", "e", "/">>)

GetImageFiles(g) ==
    SelectSeq(MapSeq(SummariseFile, SelectSeq(g, LAMBDA e : HasType(e, "File"))), IsImage)

(***************************************************************************)
(* get_local_path and open_as_dataframe.  pandas is taken as installed,    *)
(* and pd.read_csv(path) as returning a frame for every existing path:     *)
(* the content of the files is not part of the model.                      *)
(***************************************************************************)
\* get_local_path(ent) for an entity dict: the path relative to root_dir, or
\* None
GetLocalPath(rd, dk, ent) ==
    IF rd = None THEN None
    ELSE IF ~HasType(ent, "File") THEN None
    ELSE LET cid == IF Truthy(ent.contentUrl) THEN ent.contentUrl ELSE ent.id
         IN  IF ~Truthy(cid) THEN None
             ELSE IF StartsWith(cid, <<"#">>) \/ StrIn(<<":", "/", "/">>, cid) THEN None
             ELSE IF cid \in dk THEN cid
             ELSE None

\* str(x) inside an f-string
Format(x) == IF x = None THEN <<"N", "o", "n", "e">> ELSE x

\* f"{summary.get('name')} is not a CSV (mediaType={mt})"
NotCsvMessage(summary, mt) ==
    Format(summary.name)
    \o <<" ", "i", "s", " ", "n", "o", "t", " ", "a", " ", "C", "S", "V", " ", "(",
          "m", "e", "d", "i", "a", "T", "y", "p", "e", "=">>
    \o Format(mt) \o <<")">>

\* OpenAsDataframe with the media type tested before the path
OpenAsDataframe_TypeFirst(by, g, rd, dk, sel) ==
    LET ents == GetFileEntities(by, g, sel)
    IN  IF ents = <<>> THEN [outcome |-> "None"]
        ELSE LET ent == ents[1]
                 path == GetLocalPath(rd, dk, ent)
                 summary == SummariseFile(ent)
                 mt == GuessMediaType(summary)
             IN  IF mt \notin {text_csv, text_comma_separated_values}
                 THEN [outcome |-> "ValueError", message |-> NotCsvMessage(summary, mt)]
                 ELSE IF path = None THEN [outcome |-> "None"]
                 ELSE [outcome |-> "DataFrame", path |-> path]

\* open_as_dataframe(sel): None, a ValueError or the frame read from the path
OpenAsDataframe(by, g, rd, dk, sel) ==
    LET ents == GetFileEntities(by, g, sel)
    IN  IF ents = <<>> THEN [outcome |-> "None"]
        ELSE LET ent == ents[1]
                 path == GetLocalPath(rd, dk, ent)
                 summary == SummariseFile(ent)
                 mt == GuessMediaType(summary)
             IN  IF path = None THEN [outcome |-> "None"]
                 ELSE IF mt \notin {text_csv, text_comma_separated_values}
                 THEN [outcome |-> "ValueError", message |-> NotCsvMessage(summary, mt)]
                 ELSE [outcome |-> "DataFrame", path |-> path]

(***************************************************************************)
(* The state machine.                                                      *)
(***************************************************************************)
\* the selectors the queries are called with: ids, display names, a
\* substring of several names, and strings that match nothing
Selectors == { f1, f3, <<"p", "a">>, <<"a">>, zz }

\* the site ids get_site_artifacts is called with: the fixture's, and one
\* that matches nothing
SiteIdArgs == { <<"s", "1">>, <<"s", "2">> }

DepthArgs == { <<>> } \cup { <<d>> : d \in 0..MaxDepthArg }

\* __init__: the fields, then _build_indexes()
Init ==
    /\ graph \in Graphs
    /\ by_id = BuildById(<<>>, graph)
    /\ actions = BuildActions(graph)
    /\ actions_by_result = BuildIndex(EmptyIndex, BuildActions(graph), "result")
    /\ actions_by_input = BuildIndex(EmptyIndex, BuildActions(graph), "object")
    /\ root_dir = None
    /\ disk = {}
    /\ pc = "idle"
    /\ op = "__init__"
    /\ file_selector = None
    /\ max_depth = <<>>
    /\ files = <<>>
    /\ w = EmptyW
    /\ ret = NoneRec
    /\ raised = FALSE

\* BuildIndexes with the two index dicts of the last build carried over
\* instead of two empty defaultdict(list)
BuildIndexes_Accumulate ==
    /\ pc = "idle"
    /\ by_id' = BuildById(<<>>, graph)
    /\ actions' = BuildActions(graph)
    /\ actions_by_result' = BuildIndex(actions_by_result, BuildActions(graph), "result")
    /\ actions_by_input' = BuildIndex(actions_by_input, BuildActions(graph), "object")
    /\ op' = "_build_indexes"
    /\ file_selector' = None
    /\ max_depth' = <<>>
    /\ files' = <<>>
    /\ w' = EmptyW
    /\ ret' = NoneRec
    /\ raised' = FALSE
    /\ pc' = "returned"
    /\ UNCHANGED <<graph, root_dir, disk>>

\* _build_indexes(), called again by the owner of the crate
BuildIndexes ==
    /\ pc = "idle"
    /\ by_id' = BuildById(<<>>, graph)
    /\ actions' = BuildActions(graph)
    /\ actions_by_result' = BuildIndex(EmptyIndex, BuildActions(graph), "result")
    /\ actions_by_input' = BuildIndex(EmptyIndex, BuildActions(graph), "object")
    /\ op' = "_build_indexes"
    /\ file_selector' = None
    /\ max_depth' = <<>>
    /\ files' = <<>>
    /\ w' = EmptyW
    /\ ret' = NoneRec
    /\ raised' = FALSE
    /\ pc' = "returned"
    /\ UNCHANGED <<graph, root_dir, disk>>

CallGetFileEntities(sel) ==
    /\ pc = "idle"
    /\ op' = "get_file_entities"
    /\ file_selector' = sel
    /\ max_depth' = <<>>
    /\ files' = GetFileEntities(by_id, graph, sel)
    /\ w' = EmptyW
    /\ ret' = files'
    /\ raised' = FALSE
    /\ pc' = "returned"
    /\ UNCHANGED crate

\* CallGetFileLineage reading actions_by_result[fid] from a defaultdict(list):
\* a file without a producer gets an empty entry
CallGetFileLineage_Inserting(sel) ==
    /\ pc = "idle"
    /\ op' = "get_file_lineage"
    /\ file_selector' = sel
    /\ max_depth' = <<>>
    /\ files' = GetFileEntities(by_id, graph, sel)
    /\ w' = EmptyW
    /\ raised' = LineageRaises(by_id, actions_by_result, files')
    /\ ret' = IF raised' THEN NoneRec ELSE LineageOfFiles(by_id, actions_by_result, files')
    /\ pc' = "returned"
    /\ actions_by_result' =
          [x \in DOMAIN actions_by_result \cup {files'[i].id : i \in 1..Len(files')} |->
              IndexGet(actions_by_result, x)]
    /\ UNCHANGED <<graph, by_id, actions, actions_by_input, root_dir, disk>>

\* get_file_lineage(sel)
CallGetFileLineage(sel) ==
    /\ pc = "idle"
    /\ op' = "get_file_lineage"
    /\ file_selector' = sel
    /\ max_depth' = <<>>
    /\ files' = GetFileEntities(by_id, graph, sel)
    /\ w' = EmptyW
    /\ raised' = LineageRaises(by_id, actions_by_result, files')
    /\ ret' = IF raised' THEN NoneRec ELSE LineageOfFiles(by_id, actions_by_result, files')
    /\ pc' = "returned"
    /\ UNCHANGED crate

CallGetSiteArtifacts(site_id) ==
    /\ pc = "idle"
    /\ op' = "get_site_artifacts"
    /\ file_selector' = site_id
    /\ max_depth' = <<>>
    /\ files' = <<>>
    /\ w' = EmptyW
    /\ raised' = SiteRaises(by_id, graph, actions, actions_by_result, site_id)
    /\ ret' = IF raised' THEN NoneRec
              ELSE GetSiteArtifacts(by_id, graph, actions, actions_by_result, site_id)
    /\ pc' = "returned"
    /\ UNCHANGED crate

\* get_file_ancestry / get_file_descendants up to the loop: the roots, the
\* early return when there are none, the queue seeded with the roots
CallWalker(name, sel, md) ==
    /\ pc = "idle"
    /\ op' = name
    /\ file_selector' = sel
    /\ max_depth' = md
    /\ files' = GetFileEntities(by_id, graph, sel)
    /\ raised' = FALSE
    /\ IF files' = <<>>
       THEN /\ w' = EmptyW
            /\ ret' = IF name = "get_file_ancestry" THEN EmptyAncestry ELSE EmptyDescendants
            /\ pc' = "returned"
       ELSE /\ w' = StartW(files')
            /\ ret' = NoneRec
            /\ pc' = "loop"
    /\ UNCHANGED crate

CallGetFileAncestry(sel, md) == CallWalker("get_file_ancestry", sel, md)
CallGetFileDescendants(sel, md) == CallWalker("get_file_descendants", sel, md)

\* one iteration of get_file_ancestry's `while q`
AncestryStep ==
    /\ pc = "loop"
    /\ op = "get_file_ancestry"
    /\ w.q # <<>>
    /\ w' = AncestryIter(by_id, actions_by_result, max_depth, w)
    /\ UNCHANGED <<crate, pc, op, file_selector, max_depth, files, ret, raised>>

\* one iteration of get_file_descendants' `while q`
DescendantsStep ==
    /\ pc = "loop"
    /\ op = "get_file_descendants"
    /\ w.q # <<>>
    /\ w' = DescendantsIter(by_id, actions_by_input, max_depth, w)
    /\ UNCHANGED <<crate, pc, op, file_selector, max_depth, files, ret, raised>>

\* the loop's exit and the return statement
AncestryReturn ==
    /\ pc = "loop"
    /\ op = "get_file_ancestry"
    /\ w.q = <<>>
    /\ ret' = AncestryResult(files, w)
    /\ pc' = "returned"
    /\ UNCHANGED <<crate, op, file_selector, max_depth, files, w, raised>>

DescendantsReturn ==
    /\ pc = "loop"
    /\ op = "get_file_descendants"
    /\ w.q = <<>>
    /\ ret' = DescendantsResult(files, w)
    /\ pc' = "returned"
    /\ UNCHANGED <<crate, op, file_selector, max_depth, files, w, raised>>

\* the caller is done with the returned value; the call's locals are gone
Release ==
    /\ pc = "returned"
    /\ pc' = "idle"
    /\ op' = "__init__"
    /\ file_selector' = None
    /\ max_depth' = <<>>
    /\ files' = <<>>
    /\ w' = EmptyW
    /\ ret' = NoneRec
    /\ raised' = FALSE
    /\ UNCHANGED crate

Next ==
    \/ Release
    \/ BuildIndexes
    \/ \E sel \in Selectors : CallGetFileEntities(sel)
    \/ \E sel \in Selectors : CallGetFileLineage(sel)
    \/ \E site_id \in SiteIdArgs : CallGetSiteArtifacts(site_id)
    \/ \E sel \in Selectors, md \in DepthArgs : CallGetFileAncestry(sel, md)
    \/ \E sel \in Selectors, md \in DepthArgs : CallGetFileDescendants(sel, md)
    \/ AncestryStep
    \/ DescendantsStep
    \/ AncestryReturn
    \/ DescendantsReturn

Spec == Init /\ [][Next]_vars

(***************************************************************************)
(* The site queries, on the graphs of the site queries.                    *)
(***************************************************************************)
\* the selectors get_file_lineage is called with: a key basename of s1, an
\* id, a substring of the key basename
SiteSelectors == { s1_xlsx, f3, <<"x", "l">> }

\* the site ids: the two of the graph, one of no entity, and "None"
SiteArgs == { s1, s2, <<"s", "3">>, <<"N", "o", "n", "e">> }

SiteInit ==
    /\ graph \in SiteGraphs
    /\ by_id = BuildById(<<>>, graph)
    /\ actions = BuildActions(graph)
    /\ actions_by_result = BuildIndex(EmptyIndex, BuildActions(graph), "result")
    /\ actions_by_input = BuildIndex(EmptyIndex, BuildActions(graph), "object")
    /\ root_dir = None
    /\ disk = {}
    /\ pc = "idle"
    /\ op = "__init__"
    /\ file_selector = None
    /\ max_depth = <<>>
    /\ files = <<>>
    /\ w = EmptyW
    /\ ret = NoneRec
    /\ raised = FALSE

SiteNext ==
    \/ Release
    \/ \E sel \in SiteSelectors : CallGetFileLineage(sel)
    \/ \E site_id \in SiteArgs : CallGetSiteArtifacts(site_id)

SiteSpec == SiteInit /\ [][SiteNext]_vars

(***************************************************************************)
(* The crate whose graph list the caller appends to: crate.graph.append(e) *)
(* between two queries, and _build_indexes() when the caller calls it.     *)
(***************************************************************************)
f4 == <<"z", "z", ".", "p", "n", "g">>
a3 == <<"#", "a", "3">>

\* the entities appended: an image File, whose name holds the selector zz,
\* and an action that makes raw out of final
AppendedEntities ==
    { [Ent(f4, Str1("File")) EXCEPT !.alternateName = f4, !.sha1 = <<"h", "4">>],
      [Ent(a3, Str1("CreateAction")) EXCEPT !.name = <<"A", "3">>,
            !.object = << N(f3) >>, !.result = << N(f1) >>] }

\* the graphs the crate is constructed from: the chain and its one-edit variants
StaleGraphs == {BaseGraph} \cup {ApplyEdit(BaseGraph, e) : e \in Edits}

StaleInit ==
    /\ graph \in StaleGraphs
    /\ by_id = BuildById(<<>>, graph)
    /\ actions = BuildActions(graph)
    /\ actions_by_result = BuildIndex(EmptyIndex, BuildActions(graph), "result")
    /\ actions_by_input = BuildIndex(EmptyIndex, BuildActions(graph), "object")
    /\ root_dir = None
    /\ disk = {}
    /\ pc = "idle"
    /\ op = "__init__"
    /\ file_selector = None
    /\ max_depth = <<>>
    /\ files = <<>>
    /\ w = EmptyW
    /\ ret = NoneRec
    /\ raised = FALSE

\* the indexes of ProvenanceCrate(g)
FreshIndexes(g) ==
    << BuildById(<<>>, g), BuildActions(g),
       BuildIndex(EmptyIndex, BuildActions(g), "result"),
       BuildIndex(EmptyIndex, BuildActions(g), "object") >>

\* crate.graph.append(e), by the owner of the crate, between two calls
GraphAppend(e) ==
    /\ pc = "idle"
    /\ Len(graph) < Len(BaseGraph) + MaxAppends
    /\ \A i \in 1..Len(graph) : graph[i].id # e.id
    /\ graph' = Append(graph, e)
    /\ UNCHANGED <<by_id, actions, actions_by_result, actions_by_input, root_dir, disk, call>>

CallGetImageFiles ==
    /\ pc = "idle"
    /\ op' = "get_image_files"
    /\ file_selector' = None
    /\ max_depth' = <<>>
    /\ files' = <<>>
    /\ w' = EmptyW
    /\ ret' = GetImageFiles(graph)
    /\ raised' = FALSE
    /\ pc' = "returned"
    /\ UNCHANGED crate

StaleNext ==
    \/ Next
    \/ \E e \in AppendedEntities : GraphAppend(e)
    \/ CallGetImageFiles

StaleSpec == StaleInit /\ [][StaleNext]_vars

(***************************************************************************)
(* The crate of files on disk: the openers.  The graph is a table, a JSON  *)
(* document declared by its encodingFormat, as the test of the opener      *)
(* appends it, and a file whose @id is a fragment; the crate is            *)
(* constructed with or without root_dir, and each relative path exists on  *)
(* disk or not.                                                            *)
(***************************************************************************)
d_csv == <<"d", ".", "c", "s", "v">>
m_json == <<"m", ".", "j", "s", "o", "n">>
x_frag == <<"#", "x">>
remote_url == <<"h", ":", "/", "/", "r">>

OpenBaseGraph ==
    << [Ent(d_csv, Str1("File")) EXCEPT !.alternateName = d_csv],
       [Ent(m_json, Str1("File")) EXCEPT !.alternateName = m_json,
            !.encodingFormat = application_json, !.contentUrl = m_json],
       [Ent(x_frag, Str1("File")) EXCEPT !.alternateName = <<"x", ".", "C", "S", "V">>] >>

iDCsv == 1
iMJson == 2
iXFrag == 3

OpenEdits ==
    {   \* the table declared as JSON, and under the other name of its type
        [kind |-> "encodingFormat", at |-> iDCsv, to |-> application_json],
        [kind |-> "encodingFormat", at |-> iDCsv, to |-> text_comma_separated_values],
        \* the table stored elsewhere
        [kind |-> "contentUrl", at |-> iDCsv, to |-> remote_url],
        \* the JSON document without a declared type, and without a name
        [kind |-> "encodingFormat", at |-> iMJson, to |-> None],
        [kind |-> "alternateName", at |-> iMJson, to |-> None],
        \* the fragment stored as the table is
        [kind |-> "contentUrl", at |-> iXFrag, to |-> d_csv] }

OpenEditSeqs == UNION {[1..n -> OpenEdits] : n \in 0..MaxEdits}

OpenGraphs == {ApplyEdits(OpenBaseGraph, es) : es \in OpenEditSeqs}

RootDirs == { None, <<"/", "c">> }

Disks == SUBSET { d_csv, m_json }

OpenSelectors == { d_csv, m_json, x_frag, <<"s">>, <<"z", "z">> }

OpenInit ==
    /\ graph \in OpenGraphs
    /\ by_id = BuildById(<<>>, graph)
    /\ actions = BuildActions(graph)
    /\ actions_by_result = BuildIndex(EmptyIndex, BuildActions(graph), "result")
    /\ actions_by_input = BuildIndex(EmptyIndex, BuildActions(graph), "object")
    /\ root_dir \in RootDirs
    /\ disk \in Disks
    /\ pc = "idle"
    /\ op = "__init__"
    /\ file_selector = None
    /\ max_depth = <<>>
    /\ files = <<>>
    /\ w = EmptyW
    /\ ret = NoneRec
    /\ raised = FALSE

\* open_as_dataframe(sel)
CallOpenAsDataframe(sel) ==
    /\ pc = "idle"
    /\ op' = "open_as_dataframe"
    /\ file_selector' = sel
    /\ max_depth' = <<>>
    /\ files' = GetFileEntities(by_id, graph, sel)
    /\ w' = EmptyW
    /\ ret' = OpenAsDataframe(by_id, graph, root_dir, disk, sel)
    /\ raised' = (ret'.outcome = "ValueError")
    /\ pc' = "returned"
    /\ UNCHANGED crate

OpenNext ==
    \/ Release
    \/ \E sel \in OpenSelectors : CallOpenAsDataframe(sel)

OpenSpec == OpenInit /\ [][OpenNext]_vars

(***************************************************************************)
(* What the properties below are stated in: the graph itself, read without *)
(* the indexes and without the walkers.                                    *)
(***************************************************************************)
Returned(name) == pc = "returned" /\ op = name

GraphIds == {graph[i].id : i \in 1..Len(graph)}
EntityOf(id) == graph[CHOOSE i \in 1..Len(graph) : graph[i].id = id]
GraphActions == {graph[i] : i \in {j \in 1..Len(graph) : IsCreateAction(graph[j])}}
ActionIds == {a.id : a \in GraphActions}
DataIds ==
    {graph[i].id : i \in {j \in 1..Len(graph) :
        HasType(graph[j], "File") \/ HasType(graph[j], "Dataset")}}

\* the list holds x as a bare id or as a dict with that "@id"
Lists(refs, x) ==
    \E j \in 1..Len(refs) :
        \/ ~refs[j].nested /\ refs[j].s = x
        \/ refs[j].nested /\ refs[j].at_id = x
Listed(refs) == {x \in GraphIds \cup {zz} : Lists(refs, x)}

RootIds == {files[i].id : i \in 1..Len(files)}
EntityKeys == DictKeys(ret.entities)
ActionKeys == DictKeys(ret.actions)
RetEdges == Range(ret.edges)

\* the actions with an output among S, and with an input among S
ProducersOf(S) == {a.id : a \in {b \in GraphActions : Listed(b.result) \cap S # {}}}
ConsumersOf(S) == {a.id : a \in {b \in GraphActions : Listed(b.object) \cap S # {}}}

\* the File/Dataset entities one hop upstream, and one hop downstream, of S
Upstream(S) ==
    DataIds \cap UNION {Listed(a.object) : a \in {b \in GraphActions : Listed(b.result) \cap S # {}}}
Downstream(S) ==
    DataIds \cap UNION {Listed(a.result) : a \in {b \in GraphActions : Listed(b.object) \cap S # {}}}

RECURSIVE UpClosure(_)
UpClosure(S) == IF Upstream(S) \subseteq S THEN S ELSE UpClosure(S \cup Upstream(S))

(***************************************************************************)
(* C1. After _build_indexes, at construction and after every rebuild: an   *)
(* action's id is in actions_by_result[x] exactly when the action's result *)
(* list holds x (bare or as {"@id": x}), it is in actions_by_input[x]      *)
(* exactly when its object list holds x, and the indexes hold no id that   *)
(* is not a CreateAction's.  x ranges over the ids, which are non-empty    *)
(* strings.                                                                *)
(***************************************************************************)
IndexIds(index) == UNION {Range(index[x]) : x \in DOMAIN index}

C1_IndexesExact ==
    (pc = "idle" \/ Returned("_build_indexes")) =>
        /\ \A x \in GraphIds \cup {zz} \cup DOMAIN actions_by_result
                      \cup DOMAIN actions_by_input :
             \A a \in GraphActions :
                /\ a.id \in Range(IndexGet(actions_by_result, x)) <=> Lists(a.result, x)
                /\ a.id \in Range(IndexGet(actions_by_input, x)) <=> Lists(a.object, x)
        /\ IndexIds(actions_by_result) \subseteq ActionIds
        /\ IndexIds(actions_by_input) \subseteq ActionIds

\* a rebuild has run, on a graph where one entity has two producers, one
\* listed as a bare id and one as a dict, and an output without an id
C1_Witness ==
    /\ Returned("_build_indexes")
    /\ \E x \in DOMAIN actions_by_result : Cardinality(Range(actions_by_result[x])) = 2
    /\ \E a \in GraphActions : N(None) \in Range(a.result)
    /\ \E a \in GraphActions : B(f3) \in Range(a.result)
    /\ \E a \in GraphActions : N(f2) \in Range(a.result)

(***************************************************************************)
(* C2. get_file_ancestry without max_depth returns in entities every File  *)
(* or Dataset from which a root is reachable over actions, and in actions  *)
(* every action with an output among them; on the fixture, the ancestry of *)
(* final holds raw, processed, final and both actions.                     *)
(***************************************************************************)
C2_AncestryComplete ==
    (Returned("get_file_ancestry") /\ max_depth = <<>> /\ files # <<>>) =>
        /\ UpClosure(RootIds) \subseteq EntityKeys
        /\ ProducersOf(UpClosure(RootIds)) \subseteq ActionKeys
        /\ (graph = BaseGraph /\ file_selector = f3) =>
              /\ EntityKeys = {f1, f2, f3}
              /\ ActionKeys = {a1, a2}

\* the fixture's chain, asked for final
C2_Witness ==
    /\ Returned("get_file_ancestry")
    /\ max_depth = <<>>
    /\ graph = BaseGraph
    /\ file_selector = f3
    /\ {f1, f2, f3} \subseteq EntityKeys
    /\ {a1, a2} \subseteq ActionKeys

(***************************************************************************)
(* C3. As the claim states it: with max_depth = 0 a walker returns only    *)
(* the roots in entities and an empty actions mapping.                     *)
(***************************************************************************)
C3_DepthZeroNoActions ==
    ((Returned("get_file_ancestry") \/ Returned("get_file_descendants"))
        /\ max_depth = <<0>> /\ files # <<>>) =>
        /\ EntityKeys = RootIds
        /\ ret.actions = <<>>

(***************************************************************************)
(* C3, amended. With max_depth = 0 a walker returns exactly the roots in   *)
(* entities, and in actions exactly the actions that list a root as an     *)
(* output (ancestry) or as an input (descendants): the roots' own actions  *)
(* are expanded, their other ends are not enqueued.                        *)
(***************************************************************************)
C3_DepthZeroRootActions ==
    /\ (Returned("get_file_ancestry") /\ max_depth = <<0>> /\ files # <<>>) =>
          /\ EntityKeys = RootIds
          /\ ActionKeys = ProducersOf(RootIds)
    /\ (Returned("get_file_descendants") /\ max_depth = <<0>> /\ files # <<>>) =>
          /\ EntityKeys = RootIds
          /\ ActionKeys = ConsumersOf(RootIds)

\* final at depth 0: the entity alone, with the action that produced it
C3_Witness ==
    /\ Returned("get_file_ancestry")
    /\ max_depth = <<0>>
    /\ file_selector = f3
    /\ EntityKeys = {f3}
    /\ a2 \in ActionKeys

(***************************************************************************)
(* C4. The loops of get_file_ancestry and get_file_descendants end, on     *)
(* every graph of the family, cyclic ones included, with and without       *)
(* max_depth: every iteration either marks an entity that was not visited  *)
(* or leaves the visited set alone and shortens the queue, so the pair     *)
(* (entities not yet visited, queue length) falls in the lexicographic     *)
(* order with every iteration and the queue is empty after finitely many.  *)
(***************************************************************************)
Unvisited(st) == Cardinality(GraphIds \ st.visited_entities)

C4_WalkersTerminate ==
    [][(pc = "loop" /\ pc' = "loop") =>
          \/ Unvisited(w') < Unvisited(w)
          \/ Unvisited(w') = Unvisited(w) /\ Len(w'.q) < Len(w.q)]_vars

\* an entity of the result is upstream of itself
Cyclic == \E e \in EntityKeys : e \in UpClosure(Upstream({e}))

\* a walk over a provenance cycle has ended after it met an entity it had
\* visited already
C4_Witness ==
    /\ Returned("get_file_ancestry") \/ Returned("get_file_descendants")
    /\ files # <<>>
    /\ Cyclic
    /\ Len(w.expanded_entities) >= 3
    /\ w.iterations > Len(w.expanded_entities)
    /\ w.q = <<>>

(***************************************************************************)
(* C5. While a walker runs, visited_entities only grows, no entity has its *)
(* actions read twice and no action has its record written twice, however  *)
(* often the entity is referenced or enqueued.                             *)
(***************************************************************************)
NoDuplicates(s) == \A i, j \in 1..Len(s) : s[i] = s[j] => i = j

C5_ExpandedOnce ==
    /\ [][pc = "loop" => w.visited_entities \subseteq w'.visited_entities]_vars
    /\ [](NoDuplicates(w.expanded_entities) /\ NoDuplicates(w.expanded_actions))

\* the entity at the head of the queue was enqueued again after it was
\* expanded, and an action already expanded is about to be met again:
\* the iteration discards the one and only records an edge for the other
C5_Witness ==
    /\ pc = "loop"
    /\ w.q # <<>>
    /\ Head(w.q)[1] \in Range(w.expanded_entities)
    /\ \E i \in 1..Len(w.q) :
          /\ w.q[i][1] \notin w.visited_entities
          /\ Range(IndexGet(IF op = "get_file_ancestry" THEN actions_by_result
                             ELSE actions_by_input, w.q[i][1]))
                \cap Range(w.expanded_actions) # {}

(***************************************************************************)
(* C6. In the result of get_file_ancestry every entity of entities has a   *)
(* generated edge from every action of the graph that lists it as an       *)
(* output, also when the action was expanded earlier through another       *)
(* output.                                                                 *)
(***************************************************************************)
C6_GeneratedEdges ==
    (Returned("get_file_ancestry") /\ files # <<>>) =>
        \A e \in EntityKeys : \A a \in GraphActions :
            Lists(a.result, e) => Edge("generated", a.id, e) \in RetEdges

\* one action has generated edges to two entities: it was expanded through
\* the first and met again through the second
C6_Witness ==
    /\ Returned("get_file_ancestry")
    /\ \E a \in ActionKeys : \E e1, e2 \in EntityKeys :
          /\ e1 # e2
          /\ Edge("generated", a, e1) \in RetEdges
          /\ Edge("generated", a, e2) \in RetEdges

(***************************************************************************)
(* C7. get_file_entities returns what the first rule with a match gives:   *)
(* the File whose id is the selector, else the Files whose alternateName   *)
(* is the selector, else the Files whose alternateName contains it, each   *)
(* in graph order and nothing of a later rule; when one File has the id    *)
(* f1 and another the alternateName f1, the selector f1 gives the first    *)
(* alone.                                                                  *)
(***************************************************************************)
IsFileEntity(e) == "File" \in e.type.v
FilesById(sel) == SelectSeq(graph, LAMBDA e : IsFileEntity(e) /\ e.id = sel)
FilesByName(sel) == SelectSeq(graph, LAMBDA e : IsFileEntity(e) /\ e.alternateName = sel)
FilesBySubstring(sel) ==
    SelectSeq(graph, LAMBDA e :
        IsFileEntity(e) /\ e.alternateName # None /\ StrIn(sel, e.alternateName))

C7_SelectorPriority ==
    Returned("get_file_entities") =>
        /\ ret = IF FilesById(file_selector) # <<>> THEN FilesById(file_selector)
                 ELSE IF FilesByName(file_selector) # <<>> THEN FilesByName(file_selector)
                 ELSE FilesBySubstring(file_selector)
        /\ (file_selector = f1 /\ f1 \in RootIds
               /\ \E e \in Range(FilesByName(f1)) : e.id # f1)
              => ret = << EntityOf(f1) >>

\* f1 is asked for on a graph where another File is named f1
C7_Witness ==
    /\ Returned("get_file_entities")
    /\ file_selector = f1
    /\ \E e \in Range(FilesByName(f1)) : e.id = f2
    /\ Len(ret) = 1
    /\ ret[1].id = f1

(***************************************************************************)
(* C8. A selector that matches no File by id, by name or by substring      *)
(* makes no query raise: get_file_entities and get_file_lineage return an  *)
(* empty list, get_file_ancestry the structure with root_files, entities,  *)
(* actions and edges all empty, get_file_descendants the same structure    *)
(* with an empty descendant_files besides.                                 *)
(***************************************************************************)
NoMatch(sel) ==
    FilesById(sel) = <<>> /\ FilesByName(sel) = <<>> /\ FilesBySubstring(sel) = <<>>

SelectorQueries ==
    {"get_file_entities", "get_file_lineage", "get_file_ancestry", "get_file_descendants"}

C8_NoMatchEmpty ==
    (op \in SelectorQueries /\ pc # "idle" /\ NoMatch(file_selector)) =>
        /\ pc = "returned"
        /\ ~raised
        /\ op \in {"get_file_entities", "get_file_lineage"} => ret = <<>>
        /\ op = "get_file_ancestry" =>
              ret = [root_files |-> <<>>, entities |-> <<>>, actions |-> <<>>, edges |-> <<>>]
        /\ op = "get_file_descendants" =>
              ret = [root_files |-> <<>>, entities |-> <<>>, actions |-> <<>>, edges |-> <<>>,
                     descendant_files |-> <<>>]

\* get_file_descendants has returned for a selector that matches nothing
C8_Witness ==
    /\ Returned("get_file_descendants")
    /\ NoMatch(file_selector)
    /\ "descendant_files" \in DOMAIN ret

(***************************************************************************)
(* C9. On graphs whose actions list ids that no entity has, in object, in  *)
(* result or as instrument, _build_indexes, get_file_lineage,              *)
(* get_file_ancestry, get_file_descendants and get_site_artifacts return   *)
(* without raising, and no such id is in an inputs or outputs bucket, a    *)
(* key of entities, or the entity of an edge.                              *)
(***************************************************************************)
RefIds(a) == {RefId(r) : r \in Range(a.object) \cup Range(a.result) \cup {a.instrument}}
Dangling == UNION {RefIds(a) : a \in GraphActions} \ GraphIds

SeqIds(summaries) == {summaries[i].id : i \in 1..Len(summaries)}
InputIds(inputs) ==
    SeqIds(inputs.files) \cup SeqIds(inputs.datasets) \cup SeqIds(inputs.parameters)
        \cup SeqIds(inputs.other)
OutputIds(outputs) ==
    SeqIds(outputs.files) \cup SeqIds(outputs.datasets) \cup SeqIds(outputs.other)
ActionRecordIds(rec) ==
    InputIds(rec.inputs) \cup (IF "outputs" \in DOMAIN rec THEN OutputIds(rec.outputs) ELSE {})
LineageIds(records) ==
    UNION {IF "note" \in DOMAIN r THEN {} ELSE InputIds(r.produced_by.inputs) :
           r \in Range(records)}

\* the ids that the value returned by the query holds in those places
AppearingIds ==
    CASE op \in {"get_file_ancestry", "get_file_descendants"} ->
            EntityKeys \cup {e.entity : e \in RetEdges}
                \cup UNION {ActionRecordIds(rec) : rec \in Range(DictValues(ret.actions))}
      [] op = "get_file_lineage" -> LineageIds(ret)
      [] op = "get_site_artifacts" ->
            LineageIds(DictValues(ret.key_lineages)) \cup SeqIds(ret.parameters)
                \cup SeqIds(ret.datasets) \cup SeqIds(ret.files)
      [] OTHER -> {}

DanglingQueries ==
    {"_build_indexes", "get_file_lineage", "get_file_ancestry", "get_file_descendants",
     "get_site_artifacts"}

C9_DanglingSkipped ==
    (pc = "returned" /\ op \in DanglingQueries) =>
        /\ ~raised
        /\ AppearingIds \cap Dangling = {}

\* a walk has returned the record of an action that lists an id no entity has
C9_Witness ==
    /\ Returned("get_file_ancestry") \/ Returned("get_file_descendants")
    /\ ~raised
    /\ \E a \in ActionKeys : zz \in RefIds(EntityOf(a)) /\ zz \in Dangling

(***************************************************************************)
(* C10. get_file_lineage gives, for each resolved File in resolution       *)
(* order, one record with produced_by None, site_ids empty and a note when *)
(* actions_by_result has no entry for the File, and otherwise one record   *)
(* for each occurrence of an action in the File's entry, in the entry's    *)
(* order, with produced_by set and no note; the result is empty exactly    *)
(* when the selector resolved to no File.                                  *)
(***************************************************************************)
\* which file, which action and whether a note, for each record to expect
RECURSIVE ExpectedRecords(_)
ExpectedRecords(fs) ==
    IF fs = <<>> THEN <<>>
    ELSE (IF IndexGet(actions_by_result, Head(fs).id) = <<>>
          THEN << [file |-> Head(fs).id, action |-> None, note |-> TRUE] >>
          ELSE [i \in 1..Len(actions_by_result[Head(fs).id]) |->
                   [file |-> Head(fs).id, action |-> actions_by_result[Head(fs).id][i],
                    note |-> FALSE]])
         \o ExpectedRecords(Tail(fs))

\* the same of a record returned
RecordShape(r) ==
    [file |-> r.file.id,
     action |-> IF "action" \in DOMAIN r.produced_by THEN r.produced_by.action.id ELSE None,
     note |-> "note" \in DOMAIN r]

C10_LineageRecords ==
    (Returned("get_file_lineage") /\ ~raised) =>
        /\ [i \in 1..Len(ret) |-> RecordShape(ret[i])] = ExpectedRecords(files)
        /\ \A i \in 1..Len(ret) :
              "note" \in DOMAIN ret[i] => ret[i].produced_by = NoneRec /\ ret[i].site_ids = <<>>
        /\ ret = <<>> <=> files = <<>>

\* the selector resolved to a File without a producer and to a File whose
\* entry holds two producers
C10_Witness ==
    /\ Returned("get_file_lineage")
    /\ ~raised
    /\ \E i \in 1..Len(files) : IndexGet(actions_by_result, files[i].id) = <<>>
    /\ \E i \in 1..Len(files) : Len(IndexGet(actions_by_result, files[i].id)) >= 2
    /\ Len(ret) > Len(files)

(***************************************************************************)
(* C11. In every record of get_file_lineage that has a producing action,   *)
(* site_ids holds, in the order of the action's object list, the value of  *)
(* each input that resolves to an entity classified as a parameter (a      *)
(* PropertyValue that is neither File nor Dataset) and named "site_id";    *)
(* the output of an action with one such parameter, of value s1, has       *)
(* site_ids = [s1].                                                        *)
(***************************************************************************)
IsSiteIdParameter(e) ==
    /\ "PropertyValue" \in e.type.v
    /\ "File" \notin e.type.v
    /\ "Dataset" \notin e.type.v
    /\ e.name = site_id_name

\* the values of the site_id parameters among the inputs of the action
ExpectedSiteIds(act) ==
    LET refs == SelectSeq(act.object, LAMBDA r :
                    RefId(r) \in GraphIds /\ IsSiteIdParameter(EntityOf(RefId(r))))
    IN  [i \in 1..Len(refs) |-> EntityOf(RefId(refs[i])).value]

C11_SiteIds ==
    (Returned("get_file_lineage") /\ ~raised) =>
        /\ \A i \in 1..Len(ret) :
              "note" \notin DOMAIN ret[i] =>
                  ret[i].site_ids = ExpectedSiteIds(EntityOf(ret[i].produced_by.action.id))
        /\ (graph = SiteBaseGraph /\ file_selector = s1_xlsx) =>
              Len(ret) = 1 /\ ret[1].site_ids = << s1 >>

\* a record of an action with two site_id parameters among its inputs
C11_Witness ==
    /\ Returned("get_file_lineage")
    /\ \E i \in 1..Len(ret) : "note" \notin DOMAIN ret[i] /\ ret[i].site_ids = << s1, s2 >>

(***************************************************************************)
(* C12. As the claim states it: with A1 from raw to processed and A2 from  *)
(* processed to final, the three of them File entities,                    *)
(* get_file_descendants(raw) holds the summaries of processed and of final *)
(* in descendant_files.                                                    *)
(***************************************************************************)
RefIdsOf(refs) == [i \in 1..Len(refs) |-> RefId(refs[i])]

\* the two actions of the scenario and its three File entities
ChainScenario ==
    /\ ActionIds = {a1, a2}
    /\ RefIdsOf(EntityOf(a1).object) = << f1 >>
    /\ RefIdsOf(EntityOf(a1).result) = << f2 >>
    /\ RefIdsOf(EntityOf(a2).object) = << f2 >>
    /\ RefIdsOf(EntityOf(a2).result) = << f3 >>
    /\ \A f \in {f1, f2, f3} : IsFileEntity(EntityOf(f))

DescendantsOfRaw ==
    Returned("get_file_descendants") /\ file_selector = f1 /\ max_depth = <<>> /\ ChainScenario

C12_DescendantFiles ==
    DescendantsOfRaw =>
        \A f \in {f2, f3} :
            \E i \in 1..Len(ret.descendant_files) :
                /\ ret.descendant_files[i].id = f
                /\ ret.descendant_files[i] = DictGet(ret.entities, f)

(***************************************************************************)
(* C12, amended: in that scenario descendant_files holds the summaries of  *)
(* those of processed and final that carry a sha1, and of nothing else; a  *)
(* File without a sha1 is in entities and not in descendant_files.         *)
(***************************************************************************)
C12_DescendantFilesHashed ==
    DescendantsOfRaw =>
        /\ {f2, f3} \subseteq EntityKeys
        /\ SeqIds(ret.descendant_files) = {f \in {f2, f3} : EntityOf(f).sha1 # None}
        /\ \A i \in 1..Len(ret.descendant_files) :
              ret.descendant_files[i] = DictGet(ret.entities, ret.descendant_files[i].id)

\* the scenario with a sha1 on processed and on final, and both returned
C12_Witness ==
    /\ DescendantsOfRaw
    /\ EntityOf(f2).sha1 # None
    /\ EntityOf(f3).sha1 # None
    /\ SeqIds(ret.descendant_files) = {f2, f3}

(***************************************************************************)
(* C13. An entity appended to the graph list is seen by no query until     *)
(* _build_indexes is called again: while the indexes are those of the      *)
(* graph before the append, get_file_entities, get_file_lineage,           *)
(* get_file_ancestry, get_file_descendants, get_site_artifacts and         *)
(* get_image_files return what they returned before the append.            *)
(***************************************************************************)
\* the indexes are older than the graph: by_id has an entry for each entity
\* of the graph it was built from, and entities were appended since
Stale == Len(graph) > Len(by_id)

\* the graph the indexes were built from
IndexedGraph == SubSeq(graph, 1, Len(by_id))

Queries ==
    {"get_file_entities", "get_file_lineage", "get_file_ancestry", "get_file_descendants",
     "get_site_artifacts", "get_image_files"}

\* what the query that has returned returns on the graph g with the indexes
\* as they are
ResultOn(g) ==
    CASE op = "get_file_entities" -> GetFileEntities(by_id, g, file_selector)
      [] op = "get_file_lineage" -> GetFileLineage(by_id, g, actions_by_result, file_selector)
      [] op = "get_file_ancestry" ->
            GetFileAncestry(by_id, g, actions_by_result, file_selector, max_depth)
      [] op = "get_file_descendants" ->
            GetFileDescendants(by_id, g, actions_by_input, file_selector, max_depth)
      [] op = "get_site_artifacts" ->
            GetSiteArtifacts(by_id, g, actions, actions_by_result, file_selector)
      [] op = "get_image_files" -> GetImageFiles(g)

C13_StaleUnobserved ==
    (pc = "returned" /\ op \in Queries /\ Stale /\ ~raised) => ret = ResultOn(IndexedGraph)

(***************************************************************************)
(* C14. _build_indexes is idempotent: called on a graph that has not       *)
(* changed since the last build it leaves by_id, actions,                  *)
(* actions_by_result and actions_by_input as they are, and called after    *)
(* entities were appended it leaves them as the construction of a crate    *)
(* from the graph as it is now would.                                      *)
(***************************************************************************)
BuildStep == pc = "idle" /\ pc' = "returned" /\ op' = "_build_indexes"

C14_RebuildIdempotent ==
    /\ [][(BuildStep /\ ~Stale) =>
            UNCHANGED <<by_id, actions, actions_by_result, actions_by_input>>]_vars
    /\ [](Returned("_build_indexes") =>
            <<by_id, actions, actions_by_result, actions_by_input>> = FreshIndexes(graph))

\* a rebuild has run after the action that makes raw out of final was appended
C14_Witness ==
    /\ Returned("_build_indexes")
    /\ Len(graph) > Len(BaseGraph)
    /\ ~Stale
    /\ IndexGet(actions_by_result, f1) = << a3 >>

(***************************************************************************)
(* C15. No step of get_file_entities, get_file_lineage, get_file_ancestry, *)
(* get_file_descendants or get_site_artifacts changes graph, by_id,        *)
(* actions, actions_by_result or actions_by_input, also when it looks up   *)
(* an id that is no key of an index; the indexes change in a call of       *)
(* _build_indexes and in no other step.                                    *)
(***************************************************************************)
FrameQueries ==
    {"get_file_entities", "get_file_lineage", "get_file_ancestry", "get_file_descendants",
     "get_site_artifacts"}

C15_QueriesFrame ==
    /\ [][(op' \in FrameQueries /\ pc' # "idle") => UNCHANGED crate]_vars
    /\ [][UNCHANGED <<by_id, actions, actions_by_result, actions_by_input>> \/ BuildStep]_vars

\* get_file_lineage has returned after it looked up a file that is no key
\* of actions_by_result, and the indexes are still those of the last build
C15_Witness ==
    /\ Returned("get_file_lineage")
    /\ \E i \in 1..Len(files) : files[i].id \notin DOMAIN actions_by_result
    /\ <<by_id, actions, actions_by_result, actions_by_input>> = FreshIndexes(IndexedGraph)

(***************************************************************************)
(* C16. A reference of an action, in object, in result or as instrument,   *)
(* written {"@id": x} instead of x, or x instead of {"@id": x}, leaves     *)
(* actions_by_result and actions_by_input as they are and get_file_lineage,*)
(* get_file_ancestry, get_file_descendants and get_site_artifacts return   *)
(* what they return.                                                       *)
(***************************************************************************)
FlipRef(r) == IF r.nested THEN B(r.at_id) ELSE N(r.s)
HasId(r) == (IF r.nested THEN r.at_id ELSE r.s) # None

\* the graphs that differ from g in the form of one reference of one action
Flips(g) ==
    LET acts == {i \in 1..Len(g) : "CreateAction" \in g[i].type.v}
    IN  UNION {
            {[g EXCEPT ![i].object[j] = FlipRef(@)] :
                j \in {k \in 1..Len(g[i].object) : HasId(g[i].object[k])}}
            \cup {[g EXCEPT ![i].result[j] = FlipRef(@)] :
                j \in {k \in 1..Len(g[i].result) : HasId(g[i].result[k])}}
            \cup (IF HasId(g[i].instrument)
                  THEN {[g EXCEPT ![i].instrument = FlipRef(@)]} ELSE {})
            : i \in acts}

\* what the query that has returned returns from a crate constructed from g
ResultOfCrate(g) ==
    LET ix == FreshIndexes(g)
    IN  CASE op = "get_file_lineage" -> GetFileLineage(ix[1], g, ix[3], file_selector)
          [] op = "get_file_ancestry" ->
                GetFileAncestry(ix[1], g, ix[3], file_selector, max_depth)
          [] op = "get_file_descendants" ->
                GetFileDescendants(ix[1], g, ix[4], file_selector, max_depth)
          [] op = "get_site_artifacts" ->
                GetSiteArtifacts(ix[1], g, ix[2], ix[3], file_selector)

FormQueries ==
    {"get_file_lineage", "get_file_ancestry", "get_file_descendants", "get_site_artifacts"}

C16_NestedBareEquivalent ==
    (~Stale /\ pc \in {"idle", "returned"}) =>
        \A g \in Flips(graph) :
            /\ FreshIndexes(g)[3] = actions_by_result
            /\ FreshIndexes(g)[4] = actions_by_input
            /\ (pc = "returned" /\ op \in FormQueries /\ ~raised) => ret = ResultOfCrate(g)

\* a walk has returned both actions of a graph that holds references of
\* both forms
C16_Witness ==
    /\ Returned("get_file_ancestry")
    /\ ~Stale
    /\ ActionKeys = {a1, a2}
    /\ \E g \in Flips(graph) : B(f1) \in Range(g[iA1].object)
    /\ \E g \in Flips(graph) : N(f3) \in Range(g[iA2].result)
    /\ \E g \in Flips(graph) : g[iA1].instrument = B(t1)

(***************************************************************************)
(* C17. step_runs of get_site_artifacts(site_id) holds one summary for     *)
(* each CreateAction with an input that resolves to a PropertyValue named  *)
(* "site_id" of value site_id, and none for another action; the site_ids   *)
(* of a summary are the values of all the PropertyValue inputs named       *)
(* "site_id" of its action, those of other sites too, in the order of the  *)
(* object list, so site_id is among them.                                  *)
(***************************************************************************)
IsSiteIdValue(e) == "PropertyValue" \in e.type.v /\ e.name = site_id_name

\* the inputs of the action that resolve to a PropertyValue named "site_id"
SiteInputs(act) ==
    SelectSeq(act.object, LAMBDA r :
        RefId(r) \in GraphIds /\ IsSiteIdValue(EntityOf(RefId(r))))
SiteValues(act) == [i \in 1..Len(SiteInputs(act)) |-> EntityOf(RefId(SiteInputs(act)[i])).value]

TaggedActionIds(site_id) == {a.id : a \in {b \in GraphActions : site_id \in Range(SiteValues(b))}}

C17_StepRuns ==
    (Returned("get_site_artifacts") /\ ~raised) =>
        /\ NoDuplicates([i \in 1..Len(ret.step_runs) |-> ret.step_runs[i].action.id])
        /\ {ret.step_runs[i].action.id : i \in 1..Len(ret.step_runs)}
               = TaggedActionIds(file_selector)
        /\ \A i \in 1..Len(ret.step_runs) :
              /\ ret.step_runs[i].site_ids = SiteValues(EntityOf(ret.step_runs[i].action.id))
              /\ file_selector \in Range(ret.step_runs[i].site_ids)

\* the site s2 has the run of an action tagged with s1 before s2, and
\* another action of the graph has no run
C17_Witness ==
    /\ Returned("get_site_artifacts")
    /\ file_selector = s2
    /\ Len(ret.step_runs) = 1
    /\ ret.step_runs[1].action.id = a1
    /\ ret.step_runs[1].site_ids = << s1, s2 >>

(***************************************************************************)
(* C18. get_site_artifacts(site_id) returns in parameters the              *)
(* PropertyValue entities named "site_id" of value site_id, in datasets    *)
(* the Dataset entities whose alternateName contains site_id and in files  *)
(* the File entities whose alternateName contains site_id, each once and   *)
(* no other; when nothing of the graph matches site_id, parameters and     *)
(* step_runs are empty and the call does not raise.                        *)
(***************************************************************************)
\* the alternateName of the entity is a string that contains site_id
NameContains(e, site_id) ==
    /\ e.alternateName # None
    /\ e.alternateName # Null
    /\ StrIn(site_id, e.alternateName)

EntitiesWhere(P(_)) == {graph[i].id : i \in {j \in 1..Len(graph) : P(graph[j])}}

SummaryIds(s) == [i \in 1..Len(s) |-> s[i].id]
Exactly(s, ids) == NoDuplicates(SummaryIds(s)) /\ Range(SummaryIds(s)) = ids

SiteParameterIds(site_id) ==
    EntitiesWhere(LAMBDA e : IsSiteIdValue(e) /\ e.value = site_id)
SiteDatasetIds(site_id) ==
    EntitiesWhere(LAMBDA e : "Dataset" \in e.type.v /\ NameContains(e, site_id))
SiteFileIds(site_id) ==
    EntitiesWhere(LAMBDA e : "File" \in e.type.v /\ NameContains(e, site_id))

C18_SiteEntities ==
    Returned("get_site_artifacts") =>
        /\ ~raised =>
              /\ Exactly(ret.parameters, SiteParameterIds(file_selector))
              /\ Exactly(ret.datasets, SiteDatasetIds(file_selector))
              /\ Exactly(ret.files, SiteFileIds(file_selector))
        /\ (SiteParameterIds(file_selector) = {}
              /\ SiteDatasetIds(file_selector) = {}
              /\ SiteFileIds(file_selector) = {}) =>
              /\ ~raised
              /\ ret.parameters = <<>>
              /\ ret.step_runs = <<>>

(***************************************************************************)
(* C19. The keys of key_lineages of get_site_artifacts(site_id) are        *)
(* basenames of the catalog (five fixed names, "<site_id>.xlsx" and        *)
(* "linear_<site_id>.json"), each at most once; a basename of the catalog  *)
(* is a key exactly when get_file_lineage(basename) has a record whose     *)
(* site_ids holds site_id, and its value is the first such record.         *)
(***************************************************************************)
LineageOfBase(base) == GetFileLineage(by_id, graph, actions_by_result, base)

\* the positions of the records of the site in the lineage of the basename
SitePositions(base, site_id) ==
    {i \in 1..Len(LineageOfBase(base)) : site_id \in Range(LineageOfBase(base)[i].site_ids)}

FirstPosition(S) == CHOOSE i \in S : \A j \in S : i <= j

KeysOf(kl) == [i \in 1..Len(kl) |-> kl[i].k]

C19_KeyLineages ==
    (Returned("get_site_artifacts") /\ ~raised) =>
        /\ NoDuplicates(KeysOf(ret.key_lineages))
        /\ Range(KeysOf(ret.key_lineages)) \subseteq Range(KeyBaseNames(file_selector))
        /\ \A base \in Range(KeyBaseNames(file_selector)) :
              /\ base \in Range(KeysOf(ret.key_lineages))
                    <=> SitePositions(base, file_selector) # {}
              /\ \A i \in 1..Len(ret.key_lineages) :
                    ret.key_lineages[i].k = base =>
                        ret.key_lineages[i].v =
                            LineageOfBase(base)[FirstPosition(SitePositions(base, file_selector))]

\* "s1.xlsx" is a key of the site s1, and the first record of its lineage,
\* that of a file with no producer, is not a record of the site
C19_Witness ==
    /\ Returned("get_site_artifacts")
    /\ ~raised
    /\ file_selector = s1
    /\ Len(ret.key_lineages) = 1
    /\ ret.key_lineages[1].k = s1_xlsx
    /\ SitePositions(s1_xlsx, s1) # {}
    /\ 1 \notin SitePositions(s1_xlsx, s1)
    /\ LineageOfBase(s1_xlsx)[1].file.id = f1
    /\ ret.key_lineages[1].v.file.id = f2

(***************************************************************************)
(* C20. After _build_indexes, by_id maps the @id of every entity of the    *)
(* graph to that entity and has one entry for each entity of the graph,    *)
(* and actions is the sub-sequence of the entities of the graph whose      *)
(* @type is "CreateAction" or a list that contains it, in graph order.     *)
(***************************************************************************)
TypedCreateAction(e) == "CreateAction" \in e.type.v

C20_IndexesAfterBuild ==
    Returned("_build_indexes") =>
        /\ \A i \in 1..Len(graph) :
              \E j \in 1..Len(by_id) : by_id[j].k = graph[i].id /\ by_id[j].v = graph[i]
        /\ NoDuplicates([j \in 1..Len(by_id) |-> by_id[j].k])
        /\ Len(by_id) = Len(graph)
        /\ actions = SelectSeq(graph, TypedCreateAction)

\* a rebuild after an action was appended to the graph: three actions, the
\* second of them typed by a list
C20_Witness ==
    /\ Returned("_build_indexes")
    /\ Len(graph) = Len(BaseGraph) + 1
    /\ graph[Len(graph)].id = a3
    /\ Len(actions) = 3
    /\ actions[2].type.list
    /\ actions[3].id = a3

(***************************************************************************)
(* C21. open_as_dataframe(selector) raises a ValueError that names the     *)
(* artifact and its media type when the first File the selector resolves   *)
(* to has a guessed media type other than text/csv and                     *)
(* text/comma-separated-values, and returns None only when no File         *)
(* resolves.                                                               *)
(***************************************************************************)
CsvTypes == { text_csv, text_comma_separated_values }

FirstMediaType == GuessMediaType(SummariseFile(files[1]))

NamesArtifactAndType ==
    /\ StrIn(Format(Get(files[1].alternateName)), ret.message)
    /\ StrIn(Format(FirstMediaType), ret.message)

C21_RaisesForNonCsv ==
    Returned("open_as_dataframe") =>
        /\ (files # <<>> /\ FirstMediaType \notin CsvTypes) =>
               (raised /\ ret.outcome = "ValueError" /\ NamesArtifactAndType)
        /\ (~raised /\ ret.outcome = "None") => files = <<>>

(***************************************************************************)
(* C21, amended.  open_as_dataframe(selector) returns None when no File    *)
(* resolves and when the first File resolved has no local path (root_dir   *)
(* unset, a fragment or remote location, or no such path on disk),         *)
(* whatever its media type; when that File has a local path it raises a    *)
(* ValueError that names the artifact and its media type if the guessed    *)
(* media type is other than text/csv and text/comma-separated-values, and  *)
(* returns the frame read from the path otherwise.                         *)
(***************************************************************************)
\* where the file is stored: its contentUrl, or its @id without one
LocationOf(e) == IF e.contentUrl \in {None, <<>>} THEN e.id ELSE e.contentUrl

HasLocalPath(e) ==
    /\ root_dir # None
    /\ Head(LocationOf(e)) # "#"
    /\ ~StrIn(<<":", "/", "/">>, LocationOf(e))
    /\ LocationOf(e) \in disk

C21_RaisesForNonCsvOnDisk ==
    Returned("open_as_dataframe") =>
        /\ raised <=> ret.outcome = "ValueError"
        /\ (files = <<>> \/ ~HasLocalPath(files[1])) => ret.outcome = "None"
        /\ (files # <<>> /\ HasLocalPath(files[1])) =>
              IF FirstMediaType \notin CsvTypes
              THEN ret.outcome = "ValueError" /\ NamesArtifactAndType
              ELSE ret.outcome = "DataFrame" /\ ret.path = LocationOf(files[1])

\* the JSON document of the test, on disk: the error names m.json and
\* application/json
C21_Witness ==
    /\ Returned("open_as_dataframe")
    /\ raised
    /\ files[1].id = m_json
    /\ StrIn(m_json, ret.message)
    /\ StrIn(application_json, ret.message)

(***************************************************************************)
(* C22. With max_depth = d >= 0 and a selector that resolves, the keys of  *)
(* entities of get_file_ancestry are the File and Dataset entities at a    *)
(* backward distance of at most d from a root (one hop: from an output of  *)
(* an action to a File or Dataset input of it), and those of               *)
(* get_file_descendants the ones at a forward distance of at most d; an    *)
(* entity that a longer path reaches as well is included.                  *)
(***************************************************************************)
RECURSIVE UpWithin(_, _)
UpWithin(S, n) == IF n = 0 THEN S ELSE UpWithin(S \cup Upstream(S), n - 1)

RECURSIVE DownWithin(_, _)
DownWithin(S, n) == IF n = 0 THEN S ELSE DownWithin(S \cup Downstream(S), n - 1)

C22_DepthBound ==
    /\ (Returned("get_file_ancestry") /\ max_depth # <<>> /\ files # <<>>) =>
          EntityKeys = UpWithin(RootIds, max_depth[1])
    /\ (Returned("get_file_descendants") /\ max_depth # <<>> /\ files # <<>>) =>
          EntityKeys = DownWithin(RootIds, max_depth[1])

\* the ancestry of final at depth 1 holds raw, which is one hop away as an
\* input of A2 and two hops away through processed
C22_Witness ==
    /\ Returned("get_file_ancestry")
    /\ max_depth = <<1>>
    /\ file_selector = f3
    /\ f1 \in Upstream({f3})
    /\ f2 \in Upstream({f3})
    /\ f1 \in Upstream({f2})
    /\ EntityKeys = {f1, f2, f3}

(***************************************************************************)
(* C23. In the result of get_file_ancestry, with any max_depth, every      *)
(* action of actions has a used edge to each File and Dataset of the graph *)
(* among its inputs, also to one that lies beyond max_depth and so is not  *)
(* in entities: max_depth bounds what is enqueued, not the edges of an     *)
(* expanded action.                                                        *)
(***************************************************************************)
C23_UsedEdgesBeyondDepth ==
    (Returned("get_file_ancestry") /\ files # <<>>) =>
        \A a \in ActionKeys : \A x \in DataIds :
            Lists(EntityOf(a).object, x) => Edge("used", a, x) \in RetEdges

\* the ancestry of final at depth 0: A2 is recorded with its used edge to
\* processed, and processed is not in entities
C23_Witness ==
    /\ Returned("get_file_ancestry")
    /\ max_depth = <<0>>
    /\ file_selector = f3
    /\ a2 \in ActionKeys
    /\ Edge("used", a2, f2) \in RetEdges
    /\ f2 \notin EntityKeys

(***************************************************************************)
(* C24. descendant_files of get_file_descendants holds the summaries of    *)
(* the entities of entities that are Files, are not roots and have a       *)
(* sha1, once each and in the order of entities, and nothing else: no      *)
(* Dataset, no File without a sha1, and no root, also when the root is     *)
(* downstream of another root.                                             *)
(***************************************************************************)
IsHashedFile(id) == "File" \in EntityOf(id).type.v /\ EntityOf(id).sha1 # None

ExpectedDescendantFiles ==
    MapSeq(LAMBDA p : p.v,
           SelectSeq(ret.entities, LAMBDA p : p.k \notin RootIds /\ IsHashedFile(p.k)))

C24_DescendantFilesExact ==
    (Returned("get_file_descendants") /\ files # <<>>) =>
        /\ ret.descendant_files = ExpectedDescendantFiles
        /\ \A i \in 1..Len(ret.entities) :
              ret.entities[i].k \in GraphIds
              /\ ret.entities[i].v.id = ret.entities[i].k
              /\ ret.entities[i].v.name = Get(EntityOf(ret.entities[i].k).alternateName)
        /\ \A i \in 1..Len(ret.descendant_files) :
              /\ ret.descendant_files[i].id \notin RootIds
              /\ ret.descendant_files[i].sha1 = EntityOf(ret.descendant_files[i].id).sha1
              /\ ret.descendant_files[i].sha1 # None

\* two roots, the second downstream of the first, and one descendant that
\* is no root: descendant_files holds that one only
C24_Witness ==
    /\ Returned("get_file_descendants")
    /\ Len(files) = 2
    /\ files[2].id \in Downstream({files[1].id})
    /\ Len(ret.descendant_files) = 1
    /\ EntityKeys = RootIds \cup {ret.descendant_files[1].id}

(***************************************************************************)
(* C25. In the result of get_file_descendants every action record has an   *)
(* outputs bucket with the keys files, datasets and other; the generated   *)
(* edges of an action of actions are one for each entry of its             *)
(* outputs.files and outputs.datasets and none for outputs.other; and      *)
(* every entity of entities has a used edge to every action that consumes  *)
(* it.                                                                     *)
(***************************************************************************)
CountIn(s, P(_)) == Len(SelectSeq(s, P))

C25_OutputsAndEdges ==
    (Returned("get_file_descendants") /\ files # <<>>) =>
        /\ \A i \in 1..Len(ret.actions) :
              LET a == ret.actions[i].k
                  r == ret.actions[i].v
              IN  /\ DOMAIN r.outputs = {"files", "datasets", "other"}
                  /\ \A x \in GraphIds \cup {zz} :
                        CountIn(ret.edges, LAMBDA e : e = Edge("generated", a, x))
                          = CountIn(r.outputs.files \o r.outputs.datasets,
                                    LAMBDA o : o.id = x)
        /\ \A e \in RetEdges : e.type = "generated" => e.action \in ActionKeys
        /\ \A x \in EntityKeys : \A a \in GraphActions :
              Lists(a.object, x) => Edge("used", a.id, x) \in RetEdges

\* an action with a File listed twice among its outputs, so with two equal
\* generated edges, and an action with an output that is neither a File nor
\* a Dataset
C25_Witness ==
    /\ Returned("get_file_descendants")
    /\ \E i \in 1..Len(ret.actions) : ret.actions[i].v.outputs.other # <<>>
    /\ \E i \in 1..Len(ret.actions) : \E x \in GraphIds :
          /\ Len(ret.actions[i].v.outputs.files) = 2
          /\ CountIn(ret.edges, LAMBDA e : e = Edge("generated", ret.actions[i].k, x)) = 2

(***************************************************************************)
(* C26. The inputs of an action record of get_file_lineage,                *)
(* get_file_ancestry and get_file_descendants hold every input reference   *)
(* that resolves in exactly one of the buckets files, datasets, parameters *)
(* and other, in the order of the object list, the bucket being that of    *)
(* the first type the entity has among File, Dataset, PropertyValue (so    *)
(* an entity typed File and Dataset is a file) and other when it has none; *)
(* a walker neither enqueues nor expands an entity that is no File and no  *)
(* Dataset.                                                                *)
(***************************************************************************)
BucketOf(e) ==
    IF "File" \in e.type.v THEN "files"
    ELSE IF "Dataset" \in e.type.v THEN "datasets"
    ELSE IF "PropertyValue" \in e.type.v THEN "parameters"
    ELSE "other"

\* the ids of the inputs of the action that resolve and belong to the bucket,
\* in the order of the object list
BucketIds(act, bucket) ==
    LET refs == SelectSeq(act.object, LAMBDA r :
                    RefId(r) \in GraphIds /\ BucketOf(EntityOf(RefId(r))) = bucket)
    IN  [i \in 1..Len(refs) |-> RefId(refs[i])]

Partitioned(act_id, inputs) ==
    /\ DOMAIN inputs = {"files", "datasets", "parameters", "other"}
    /\ \A bucket \in DOMAIN inputs :
          SummaryIds(inputs[bucket]) = BucketIds(EntityOf(act_id), bucket)

C26_InputsPartitioned ==
    /\ (Returned("get_file_lineage") /\ ~raised) =>
          \A i \in 1..Len(ret) :
              ret[i].produced_by # NoneRec =>
                  Partitioned(ret[i].produced_by.action.id, ret[i].produced_by.inputs)
    /\ ((Returned("get_file_ancestry") \/ Returned("get_file_descendants"))
            /\ files # <<>>) =>
          /\ \A i \in 1..Len(ret.actions) :
                Partitioned(ret.actions[i].k, ret.actions[i].v.inputs)
          /\ EntityKeys \subseteq DataIds
    /\ pc = "loop" =>
          /\ \A i \in 1..Len(w.q) : w.q[i][1] \in DataIds
          /\ Range(w.expanded_entities) \subseteq DataIds

\* the ancestry of final when processed is typed Thing: processed is in
\* inputs.other of A2 and is not in entities, and A1, which produced it,
\* was not expanded
C26_Witness ==
    /\ Returned("get_file_ancestry")
    /\ file_selector = f3
    /\ max_depth = <<>>
    /\ ActionKeys = {a2}
    /\ SummaryIds(DictGet(ret.actions, a2).inputs.other) = << f2 >>
    /\ f2 \notin EntityKeys

(***************************************************************************)
(* C27. Ancestry and descendants are duals: for two File entities x and y  *)
(* given by their @id and any max_depth d, y is a key of entities of       *)
(* get_file_descendants(x, d) exactly when x is a key of entities of       *)
(* get_file_ancestry(y, d).                                                *)
(***************************************************************************)
FileIds == {graph[i].id : i \in {j \in 1..Len(graph) : "File" \in graph[j].type.v}}

AncestryKeys(y, md) ==
    DictKeys(GetFileAncestry(by_id, graph, actions_by_result, y, md).entities)

DescendantsKeys(x, md) ==
    DictKeys(GetFileDescendants(by_id, graph, actions_by_input, x, md).entities)

C27_Duality ==
    /\ (Returned("get_file_descendants") /\ file_selector \in FileIds) =>
          \A y \in FileIds :
              y \in EntityKeys <=> file_selector \in AncestryKeys(y, max_depth)
    /\ (Returned("get_file_ancestry") /\ file_selector \in FileIds) =>
          \A x \in FileIds :
              file_selector \in DescendantsKeys(x, max_depth) <=> x \in EntityKeys

\* the descendants of raw at depth 1 when raw is also an input of A2: final
\* is among them, processed too, and raw is in the ancestry of both
C27_Witness ==
    /\ Returned("get_file_descendants")
    /\ file_selector = f1
    /\ max_depth = <<1>>
    /\ EntityKeys = {f1, f2, f3}
    /\ f1 \in AncestryKeys(f3, <<1>>)
    /\ f1 \in AncestryKeys(f2, <<1>>)
    /\ f3 \notin DescendantsKeys(f1, <<0>>)

(***************************************************************************)
(* C28. In every result of get_file_ancestry, with any max_depth, the keys *)
(* of actions are the ids of the actions that list an entity of entities   *)
(* in their result list, and every edge, used or generated, names an       *)
(* action that is a key of actions.                                        *)
(***************************************************************************)
C28_ActionsOfEntities ==
    (Returned("get_file_ancestry") /\ files # <<>>) =>
        /\ ActionKeys = ProducersOf(EntityKeys)
        /\ \A e \in RetEdges : e.action \in ActionKeys

\* final has two producers and max_depth is 0: both actions are recorded,
\* final is the only entity, and there are used edges
C28_Witness ==
    /\ Returned("get_file_ancestry")
    /\ max_depth = <<0>>
    /\ EntityKeys = {f3}
    /\ ActionKeys = {a1, a2}
    /\ \E e \in RetEdges : e.type = "used" /\ e.action = a1

(***************************************************************************)
(* C29. Without max_depth the subgraph that get_file_ancestry and          *)
(* get_file_descendants return is closed: every root is a key of entities, *)
(* and every edge has its entity among the keys of entities and its action *)
(* among the keys of actions.  With a max_depth the entity of an edge may  *)
(* be missing from entities; its action never is.                          *)
(***************************************************************************)
C29_ClosedSubgraph ==
    ((Returned("get_file_ancestry") \/ Returned("get_file_descendants")) /\ files # <<>>) =>
        /\ \A e \in RetEdges : e.action \in ActionKeys
        /\ max_depth = <<>> =>
              /\ RootIds \subseteq EntityKeys
              /\ \A e \in RetEdges : e.entity \in EntityKeys

\* the descendants of raw, without max_depth, on the graph where A2 gives
\* raw back: the edges run around the cycle and the subgraph is closed
C29_Witness ==
    /\ Returned("get_file_descendants")
    /\ max_depth = <<>>
    /\ file_selector = f1
    /\ Edge("generated", a2, f1) \in RetEdges
    /\ Edge("used", a1, f1) \in RetEdges
    /\ EntityKeys = {f1, f2, f3}
    /\ ActionKeys = {a1, a2}

(***************************************************************************)
(* C30. get_file_lineage and get_file_ancestry agree on the direct         *)
(* producers: for every resolved file f and every max_depth, 0 included,   *)
(* the action ids that the lineage records of f name in produced_by are    *)
(* the actions with a generated edge to f in the ancestry result, and the  *)
(* inputs of each such action are the same in both results.                *)
(***************************************************************************)
LineageNow == LineageOfFiles(by_id, actions_by_result, files)

LineageProducers(f) ==
    {LineageNow[i].produced_by.action.id :
        i \in {j \in 1..Len(LineageNow) :
                  LineageNow[j].file.id = f /\ LineageNow[j].produced_by # NoneRec}}

GeneratedTo(f) == {e.action : e \in {x \in RetEdges : x.type = "generated" /\ x.entity = f}}

C30_LineageAgreesWithAncestry ==
    (Returned("get_file_ancestry") /\ files # <<>>
        /\ ~LineageRaises(by_id, actions_by_result, files)) =>
        /\ \A f \in RootIds : LineageProducers(f) = GeneratedTo(f)
        /\ \A i \in 1..Len(LineageNow) :
              LineageNow[i].produced_by # NoneRec =>
                  LET act_id == LineageNow[i].produced_by.action.id
                  IN  /\ act_id \in ActionKeys
                      /\ DictGet(ret.actions, act_id).inputs = LineageNow[i].produced_by.inputs

\* the ancestry of final at max_depth 0: both producers have a generated edge
\* to final and a lineage record, and A1 has a parameter among its inputs
C30_Witness ==
    /\ Returned("get_file_ancestry")
    /\ max_depth = <<0>>
    /\ file_selector = f3
    /\ LineageProducers(f3) = {a1, a2}
    /\ GeneratedTo(f3) = {a1, a2}
    /\ \E i \in 1..Len(LineageNow) : LineageNow[i].produced_by.inputs.parameters # <<>>

====
